---- MODULE Spec2Model ----
(***************************************************************************)
(* NeuraPixel: the sliding-window rate limiter (src/middleware.py), the    *)
(* date-partitioned image store (src/services/file_manager.py) and the     *)
(* routes of src/app.py that use them.                                     *)
(*                                                                         *)
(* Text is modelled as a tuple of one-character strings, so that the       *)
(* string operations of the code (substring tests, splitting, the suffix   *)
(* of a file name) are computed rather than assumed.                       *)
(*                                                                         *)
(* Time: one action is one call, taken at one reading of the clock, but    *)
(* for save_file, whose two readings both show in what it returns.  The    *)
(* clock is the environment's; it never goes back.  Where threads meet     *)
(* (SpecThreads, SpecHandlers) an action is one step of a call instead.    *)
(***************************************************************************)
EXTENDS Integers, Sequences, FiniteSets, TLC

VARIABLES
    \* ---- RateLimiter (src/middleware.py) ----
    now,                  \* time.time(), in seconds
    requests_per_minute,  \* RateLimiter.requests_per_minute
    requests_per_hour,    \* RateLimiter.requests_per_hour
    minute_requests,      \* defaultdict(deque): client id -> timestamps
    hour_requests,        \* defaultdict(deque): client id -> timestamps
    last_cleanup,         \* RateLimiter.last_cleanup
    history,              \* every is_allowed call so far: who, when, answer
    route_log,            \* every /generate request so far: who, when, its number
    \* ---- FileManager.validate_filename on its own ----
    vf_name,              \* the name given
    vf_checked,           \* whether validate_filename has returned
    vf_result,            \* what it returned
    \* ---- FileManager (src/services/file_manager.py) ----
    clock,                \* datetime.now(), in ticks of a day
    max_age_days,         \* FileManager.max_age_days
    dirs,                 \* the names of the directories in the base directory
    files,                \* the files in them: [dir, name, size]
    cleanup_log,          \* the lines of cleanup_log.txt
    saved,                \* the records save_file has returned so far
    calls,                \* the number of store calls so far
    fs_last,              \* the last store call and what it returned
    \* ---- threads in FileManager calls, a step at a time ----
    sweeps,               \* each cleanup thread: where it is and its locals
    saver,                \* the save_file thread: where it is and its locals
    \* ---- the rest of src/middleware.py ----
    rate_limiter,         \* the module's global: None or the RateLimiter
    config,               \* app.config of the app init_rate_limiter was given
    served,               \* what the decorated view function has answered so far
    stats,                \* the last get_stats() snapshot and the maps it saw
    \* ---- threads in RateLimiter.is_allowed, a step at a time ----
    handlers,             \* each request thread: where it is and its locals
    deques                \* the deque objects the two maps refer to

rlVars == <<now, requests_per_minute, requests_per_hour, minute_requests,
            hour_requests, last_cleanup, history, route_log>>

vfVars == <<vf_name, vf_checked, vf_result>>

fsVars == <<clock, max_age_days, dirs, files, cleanup_log, saved, calls, fs_last>>

thVars == <<sweeps, saver>>

mwVars == <<rate_limiter, config, served, stats>>

rtVars == <<handlers, deques>>

vars == <<rlVars, vfVars, fsVars, thVars, mwVars, rtVars>>

-----------------------------------------------------------------------------
(* Bounds of the model.                                                    *)

\* The configured limits range over 1..MaxPerMinute and 1..MaxPerHour.
MaxPerMinute == 2
MaxPerHour == 3
\* At most this many requests (is_allowed calls and /generate requests).
MaxRequests == 4

\* The instants at which the clock is read.
TimePoints == {0, 60, 61, 3600, 3661}

-----------------------------------------------------------------------------
(* RateLimiter                                                             *)

MinuteWindow == 60
HourWindow == 3600
cleanup_interval == 300

PER_MINUTE == "Too many requests per minute"
PER_HOUR == "Too many requests per hour"
NONE == "None"

\* hashlib.md5(user_agent.encode()).hexdigest()[:8] of the user agents used.
UserAgents == {"", "curl/8.0"}
UserAgentHash(ua) ==
    CASE ua = "" -> "d41d8cd9"
      [] ua = "curl/8.0" -> "299e8ec9"

\* A request: the X-Forwarded-For chain (empty: no header), the peer
\* address and the User-Agent header.
Requests ==
    { [forwarded |-> <<>>, remote_addr |-> "10.0.0.1", user_agent |-> "curl/8.0"],
      [forwarded |-> <<"10.0.0.1", "10.9.9.9">>, remote_addr |-> "10.0.0.2",
       user_agent |-> "curl/8.0"],
      [forwarded |-> <<>>, remote_addr |-> "10.0.0.1", user_agent |-> ""] }

\* request.environ.get('HTTP_X_FORWARDED_FOR', request.remote_addr), its first
\* entry, and the hash of the user agent.
_get_client_id(req) ==
    LET client_ip == IF req.forwarded = <<>> THEN req.remote_addr
                     ELSE Head(req.forwarded)
    IN  <<client_ip, UserAgentHash(req.user_agent)>>

ClientIds == { _get_client_id(req) : req \in Requests }

\* while requests and requests[0] < cutoff: requests.popleft()
RECURSIVE PopOld(_, _)
PopOld(requests, cutoff) ==
    IF requests # <<>> /\ Head(requests) < cutoff
    THEN PopOld(Tail(requests), cutoff)
    ELSE requests

\* One pass of a cleanup loop over a defaultdict: every deque trimmed, the
\* empty ones deleted.
CleanMap(map, cutoff) ==
    LET kept == { c \in DOMAIN map : PopOld(map[c], cutoff) # <<>> }
    IN  [c \in kept |-> PopOld(map[c], cutoff)]

\* A pass whatever the time since the last one.
_cleanup_on_every_call(mreq, hreq, last, t) ==
    [minute |-> CleanMap(mreq, t - MinuteWindow),
     hour |-> CleanMap(hreq, t - HourWindow),
     last_cleanup |-> t, ran |-> TRUE]

\* RateLimiter._cleanup_old_requests at time t.
_cleanup_old_requests(mreq, hreq, last, t) ==
    IF t - last < cleanup_interval
    THEN [minute |-> mreq, hour |-> hreq, last_cleanup |-> last, ran |-> FALSE]
    ELSE [minute |-> CleanMap(mreq, t - MinuteWindow),
          hour |-> CleanMap(hreq, t - HourWindow),
          last_cleanup |-> t, ran |-> TRUE]

\* defaultdict.__getitem__: the deque of the key, created empty when missing.
GetOrCreate(map, c) == IF c \in DOMAIN map THEN map[c] ELSE <<>>

PutShared(map, c, q) == [k \in DOMAIN map \cup {c} |-> q]
Put(map, c, q) == [k \in DOMAIN map \cup {c} |-> IF k = c THEN q ELSE map[k]]

\* The per-minute test of is_allowed.
MinuteLimitOffByOne(window, limit) == Len(window) > limit
MinuteLimitReached(window, limit) == Len(window) >= limit

\* The per-hour test of is_allowed.
HourLimitOffByOne(window, limit) == Len(window) > limit
HourLimitReached(window, limit) == Len(window) >= limit

\* The order of the two tests: the minute limit first, then the hour limit.
DecideHourFirst(mwin, hwin, rpm, rph) ==
    IF HourLimitReached(hwin, rph) THEN PER_HOUR
    ELSE IF MinuteLimitReached(mwin, rpm) THEN PER_MINUTE
    ELSE NONE
Decide(mwin, hwin, rpm, rph) ==
    IF MinuteLimitReached(mwin, rpm) THEN PER_MINUTE
    ELSE IF HourLimitReached(hwin, rph) THEN PER_HOUR
    ELSE NONE

\* What a denied request leaves of its trimmed window: is_allowed returns
\* before "Record this request".
DeniedWindowRecorded(window, t) == Append(window, t)
DeniedWindow(window, t) == window

\* RateLimiter.is_allowed for client c at time t: the answer and the new maps.
is_allowed(mreq, hreq, last, rpm, rph, c, t) ==
    LET swept == _cleanup_old_requests(mreq, hreq, last, t)
        mwin == PopOld(GetOrCreate(swept.minute, c), t - MinuteWindow)
        hwin == PopOld(GetOrCreate(swept.hour, c), t - HourWindow)
        reason == Decide(mwin, hwin, rpm, rph)
        rest == [allowed |-> reason = NONE, reason |-> reason,
                 last_cleanup |-> swept.last_cleanup, swept |-> swept.ran,
                 minute_len |-> Len(mwin)]
    IN  CASE reason = PER_MINUTE ->
               \* the hour deque has not been looked up yet
               [minute |-> Put(swept.minute, c, DeniedWindow(mwin, t)),
                hour |-> swept.hour] @@ rest
          [] reason = PER_HOUR ->
               [minute |-> Put(swept.minute, c, DeniedWindow(mwin, t)),
                hour |-> Put(swept.hour, c, DeniedWindow(hwin, t))] @@ rest
          [] OTHER ->
               [minute |-> Put(swept.minute, c, Append(mwin, t)),
                hour |-> Put(swept.hour, c, Append(hwin, t))] @@ rest

\* The number of requests received so far.
Received == Len(history) + Len(route_log)

\* RateLimiter.__init__ with the configured limits, at time 0.
RateLimiterInit ==
    /\ now = 0
    /\ requests_per_minute \in 1..MaxPerMinute
    /\ requests_per_hour \in 1..MaxPerHour
    /\ minute_requests = << >>
    /\ hour_requests = << >>
    /\ last_cleanup = 0
    /\ history = << >>
    /\ route_log = << >>

\* The rate limiter left alone.
RateLimiterIdle ==
    /\ now = 0
    /\ requests_per_minute = 1
    /\ requests_per_hour = 1
    /\ minute_requests = << >>
    /\ hour_requests = << >>
    /\ last_cleanup = 0
    /\ history = << >>
    /\ route_log = << >>

\* No validate_filename call under way.
ValidateIdle ==
    /\ vf_name = << >>
    /\ vf_checked = FALSE
    /\ vf_result = FALSE

\* The image store left alone: an empty base directory.
StoreIdle ==
    /\ clock = 0
    /\ max_age_days = 1
    /\ dirs = {}
    /\ files = {}
    /\ cleanup_log = << >>
    /\ saved = {}
    /\ calls = 0
    /\ fs_last = [op |-> "none"]

\* The threads that run a cleanup: one through schedule_cleanup, one through
\* cleanup_old_files itself.
Sweepers == {"scheduled", "manual"}

\* A cleanup thread before its call, and the locals of cleanup_old_files:
\* at is the clock reading of cutoff_date, listed the files the first loop
\* has listed, found is files_to_delete, todo what the delete loop has not
\* come to yet, deleted is deleted_files, prune_todo what the pruning loop
\* has not come to yet, removed is deleted_directories.
IdleSweep ==
    [pc |-> "idle", at |-> 0, listed |-> {}, found |-> {}, todo |-> {},
     deleted |-> {}, prune_todo |-> {}, removed |-> {}, raised |-> FALSE,
     dry_run |-> FALSE]

\* No thread is inside a FileManager call.
ThreadsIdle ==
    /\ sweeps = [s \in Sweepers |-> IdleSweep]
    /\ saver = [pc |-> "idle"]

\* The module's global set by init_rate_limiter with rate limiting enabled;
\* no decorated request answered and no get_stats() call yet.
NoStats == [taken |-> FALSE]

\* app.config of an app with rate limiting enabled and the limits chosen.
EnabledConfig ==
    [RATE_LIMIT_ENABLED |-> TRUE, RATE_LIMIT_PER_MINUTE |-> requests_per_minute,
     RATE_LIMIT_PER_HOUR |-> requests_per_hour]

MiddlewareIdle ==
    /\ rate_limiter = "RateLimiter"
    /\ config = EnabledConfig
    /\ served = << >>
    /\ stats = NoStats

\* The request threads of the server (Flask's development server starts one
\* for each request).
Handlers == {"h1", "h2"}

\* A request thread before its call, and the locals of is_allowed and of
\* the _cleanup_old_requests it calls: current_time of the one, sweep_time
\* (current_time) of the other, keys what a cleanup loop has not come to yet,
\* key and requests the loop's client_id and deque, minute_requests and
\* hour_requests the deques of is_allowed.
IdleHandler ==
    [pc |-> "idle", client_id |-> << >>, current_time |-> 0, sweep_time |-> 0,
     keys |-> {}, key |-> << >>, requests |-> 0, minute_requests |-> 0,
     hour_requests |-> 0]

\* No thread is inside is_allowed.
HandlersIdle ==
    /\ handlers = [h \in Handlers |-> IdleHandler]
    /\ deques = << >>

InitRL == RateLimiterInit /\ ValidateIdle /\ StoreIdle /\ ThreadsIdle /\ MiddlewareIdle /\ HandlersIdle

\* The clock moves on.
Advance ==
    /\ \E t \in TimePoints : t > now /\ now' = t
    /\ UNCHANGED <<requests_per_minute, requests_per_hour, minute_requests,
                   hour_requests, last_cleanup, history, route_log>>
    /\ UNCHANGED <<vfVars, fsVars, thVars, mwVars, rtVars>>

\* A call of rate_limiter.is_allowed() while request req is being handled.
IsAllowed ==
    \E req \in Requests :
        LET c == _get_client_id(req)
            r == is_allowed(minute_requests, hour_requests, last_cleanup,
                            requests_per_minute, requests_per_hour, c, now)
        IN  /\ Received < MaxRequests
            /\ minute_requests' = r.minute
            /\ hour_requests' = r.hour
            /\ last_cleanup' = r.last_cleanup
            /\ history' = Append(history,
                   [id |-> Received + 1, client |-> c, at |-> now,
                    allowed |-> r.allowed, reason |-> r.reason,
                    minute_len |-> r.minute_len, swept |-> r.swept])
            /\ UNCHANGED <<now, requests_per_minute, requests_per_hour, route_log>>
            /\ UNCHANGED <<vfVars, fsVars, thVars, mwVars, rtVars>>

\* POST /generate (app.py): the view function registered for the route is
\* generate_image itself; with a prompt in the body it goes straight to
\* image_generator.generate_and_save_image.
generate_image ==
    \E req \in Requests, has_prompt \in BOOLEAN :
        /\ Received < MaxRequests
        /\ route_log' = Append(route_log,
               [id |-> Received + 1, client |-> _get_client_id(req), at |-> now,
                generation_started |-> has_prompt])
        /\ UNCHANGED <<now, requests_per_minute, requests_per_hour,
                       minute_requests, hour_requests, last_cleanup, history>>
        /\ UNCHANGED <<vfVars, fsVars, thVars, mwVars, rtVars>>

NextRL == Advance \/ IsAllowed

SpecRL == InitRL /\ [][NextRL]_vars

\* The application: the routes of app.py beside the rate limiter.
NextApp == Advance \/ IsAllowed \/ generate_image

SpecApp == InitRL /\ [][NextApp]_vars

-----------------------------------------------------------------------------
(* Claims about the rate limiter.                                          *)

\* The earlier calls of the same client that were admitted no more than w
\* seconds before call i.
AdmittedCalls(i, w) ==
    { j \in 1..(i - 1) :
        /\ history[j].client = history[i].client
        /\ history[j].allowed
        /\ history[j].at >= history[i].at - w }

AdmittedBefore(i, w) == Cardinality(AdmittedCalls(i, w))

\* The time of the first of those calls.
FirstAdmittedBefore(i, w) ==
    LET js == AdmittedCalls(i, w)
    IN  history[CHOOSE j \in js : \A k \in js : j <= k].at

\* C1: a request of a client that already has as many admitted requests in
\* the 60 seconds before it as the per-minute limit is denied, and the reason
\* given is the per-minute one.
C1_MinuteLimitDenies ==
    \A i \in DOMAIN history :
        AdmittedBefore(i, MinuteWindow) >= requests_per_minute
            => /\ ~history[i].allowed
               /\ history[i].reason = PER_MINUTE

\* The limit is reached and a later request, 60 seconds after the first
\* admitted one, is denied.
C1_Witness ==
    \E i \in DOMAIN history :
        /\ AdmittedBefore(i, MinuteWindow) = requests_per_minute
        /\ history[i].at = FirstAdmittedBefore(i, MinuteWindow) + MinuteWindow
        /\ history[i].reason = PER_MINUTE

\* C2: a client that was denied by the per-minute limit is admitted again as
\* soon as fewer than the limit of its admitted requests lie in the 60 seconds
\* before the request (and fewer than the hour limit in the 3600 seconds
\* before it), whatever number of denied requests it made: 61 seconds after
\* the first of the L admitted requests that is the case.
C2_DeniedRequestsDoNotExtend ==
    \A i \in DOMAIN history :
        ( /\ \E j \in 1..(i - 1) : /\ history[j].client = history[i].client
                                   /\ history[j].reason = PER_MINUTE
          /\ AdmittedBefore(i, MinuteWindow) < requests_per_minute
          /\ AdmittedBefore(i, HourWindow) < requests_per_hour )
        => history[i].allowed

\* A client is denied twice by the minute limit, the second time 60 seconds
\* after its first admitted request, and admitted one second later.
C2_Witness ==
    \E i \in DOMAIN history : \E j, k \in 1..(i - 1) :
        /\ j < k
        /\ history[j].client = history[i].client
        /\ history[k].client = history[i].client
        /\ history[j].reason = PER_MINUTE
        /\ history[k].reason = PER_MINUTE
        /\ AdmittedBefore(k, MinuteWindow) = requests_per_minute
        /\ history[k].at = FirstAdmittedBefore(k, MinuteWindow) + MinuteWindow
        /\ history[i].at = history[k].at + 1
        /\ history[i].allowed

\* C3: the per-hour reason is given only when the trimmed minute window
\* holds fewer than the per-minute limit, and when both windows are at their
\* limits the reason is the per-minute one.
C3_MinuteReasonFirst ==
    \A i \in DOMAIN history :
        /\ history[i].reason = PER_HOUR
              => /\ history[i].minute_len < requests_per_minute
                 /\ AdmittedBefore(i, MinuteWindow) < requests_per_minute
        /\ ( /\ AdmittedBefore(i, MinuteWindow) >= requests_per_minute
             /\ AdmittedBefore(i, HourWindow) >= requests_per_hour )
              => history[i].reason = PER_MINUTE

\* One request is denied by the hour limit, and another is denied with both
\* windows at their limits.
C3_Witness ==
    /\ \E i \in DOMAIN history : history[i].reason = PER_HOUR
    /\ \E i \in DOMAIN history :
          /\ AdmittedBefore(i, MinuteWindow) >= requests_per_minute
          /\ AdmittedBefore(i, HourWindow) >= requests_per_hour
          /\ history[i].reason = PER_MINUTE

\* C4: generate_and_save_image starts only for a request that is_allowed has
\* admitted.
C4_AdmittedBeforeGeneration ==
    \A k \in DOMAIN route_log :
        route_log[k].generation_started
            => \E i \in DOMAIN history :
                  /\ history[i].id = route_log[k].id
                  /\ history[i].allowed

-----------------------------------------------------------------------------
(* Text: a string is a tuple of one-character strings.                     *)

Lowercase == <<"a", "b", "c", "d", "e", "f", "g", "h", "i", "j", "k", "l", "m",
               "n", "o", "p", "q", "r", "s", "t", "u", "v", "w", "x", "y", "z">>
Uppercase == <<"A", "B", "C", "D", "E", "F", "G", "H", "I", "J", "K", "L", "M",
               "N", "O", "P", "Q", "R", "S", "T", "U", "V", "W", "X", "Y", "Z">>
Digits == <<"0", "1", "2", "3", "4", "5", "6", "7", "8", "9">>

Range(s) == { s[i] : i \in DOMAIN s }

\* sub in s
Contains(s, sub) ==
    \E i \in 0..(Len(s) - Len(sub)) : SubSeq(s, i + 1, i + Len(sub)) = sub

\* str.lower()
LowerChar(c) ==
    IF c \in Range(Uppercase)
    THEN Lowercase[CHOOSE i \in DOMAIN Uppercase : Uppercase[i] = c]
    ELSE c
lower(s) == [i \in DOMAIN s |-> LowerChar(s[i])]

\* str.rfind(ch), counted from 1; 0 when ch does not occur.
RFind(s, ch) ==
    IF ch \in Range(s)
    THEN CHOOSE i \in DOMAIN s : s[i] = ch /\ \A j \in DOMAIN s : s[j] = ch => j <= i
    ELSE 0

-----------------------------------------------------------------------------
(* FileManager.validate_filename                                           *)

\* pathlib's PurePath.suffix of a one-component name: from the last dot on,
\* when that dot is neither the first nor the last character; else empty.
SuffixAnyDot(name) ==
    IF RFind(name, ".") >= 1 THEN SubSeq(name, RFind(name, "."), Len(name)) ELSE << >>
Suffix(name) ==
    IF RFind(name, ".") > 1 /\ RFind(name, ".") < Len(name)
    THEN SubSeq(name, RFind(name, "."), Len(name))
    ELSE << >>

allowed_chars == Range(Lowercase) \cup Range(Uppercase) \cup Range(Digits)
                 \cup {"_", ".", "-"}

allowed_extensions == { <<".", "p", "n", "g">>, <<".", "j", "p", "g">>,
                        <<".", "j", "p", "e", "g">> }

\* file_ext = Path(filename).suffix.lower(); file_ext in allowed_extensions
ExtensionAllowedNoLower(filename) == Suffix(filename) \in allowed_extensions
ExtensionAllowed(filename) == lower(Suffix(filename)) \in allowed_extensions

\* The directory traversal test: '..' in filename or '/' in filename or
\* '\\' in filename
TraversalAttempt(filename) ==
    \/ Contains(filename, <<".", ".">>)
    \/ "/" \in Range(filename)
    \/ "\\" \in Range(filename)

validate_filename(filename) ==
    IF filename = << >> THEN FALSE
    ELSE IF TraversalAttempt(filename) THEN FALSE
    ELSE IF \E i \in DOMAIN filename : filename[i] \notin allowed_chars THEN FALSE
    ELSE IF ~ExtensionAllowed(filename) THEN FALSE
    ELSE TRUE

\* The names given to validate_filename: every text of at most MaxNameLen
\* characters of NameAlphabet, and the names below.
MaxNameLen == 5
NameAlphabet == {"a", ".", "/", "p", "n", "g", "G", " "}

Name_a_dotdot_png == <<"a", ".", ".", "p", "n", "g">>
Name_dot_png == <<".", "p", "n", "g">>
Name_x_PNG == <<"x", ".", "P", "N", "G">>
Name_generated == <<"2", "0", "2", "4", "0", "1", "0", "1", "_", "1", "2", "0",
                    "0", "0", "0", "_", "0", "0", "0", "_", "a", "b", "c", "d",
                    "e", "f", "1", "2", ".", "p", "n", "g">>
Name_etc_passwd == <<".", ".", "/", ".", ".", "/", "e", "t", "c", "/", "p", "a",
                     "s", "s", "w", "d">>
Name_a_slash_b_png == <<"a", "/", "b", ".", "p", "n", "g">>
Name_x_exe == <<"x", ".", "e", "x", "e">>
Name_a_jpg == <<"a", ".", "j", "p", "g">>
Name_a_jpeg == <<"a", ".", "j", "p", "e", "g">>
Name_mixed_JpEg == <<"A", "-", "b", "_", "1", ".", "J", "p", "E", "g">>
Name_backslash == <<"a", "\\", "b", ".", "p", "n", "g">>
Name_a_png_dot == <<"a", ".", "p", "n", "g", ".">>
Name_a_pngx == <<"a", ".", "p", "n", "g", "x">>

ExampleNames ==
    { Name_a_dotdot_png, Name_dot_png, Name_x_PNG, Name_generated,
      Name_etc_passwd, Name_a_slash_b_png, Name_x_exe, Name_a_jpg, Name_a_jpeg,
      Name_mixed_JpEg, Name_backslash, Name_a_png_dot, Name_a_pngx }

BoundedNames == UNION { [1..n -> NameAlphabet] : n \in 0..MaxNameLen }

Names == BoundedNames \cup ExampleNames

InitVF ==
    /\ RateLimiterIdle
    /\ StoreIdle
    /\ ThreadsIdle
    /\ MiddlewareIdle
    /\ HandlersIdle
    /\ vf_name \in Names
    /\ vf_checked = FALSE
    /\ vf_result = FALSE

\* One call of file_manager.validate_filename(vf_name).
ValidateFilename ==
    /\ ~vf_checked
    /\ vf_checked' = TRUE
    /\ vf_result' = validate_filename(vf_name)
    /\ UNCHANGED vf_name
    /\ UNCHANGED <<rlVars, fsVars, thVars, mwVars, rtVars>>

NextVF == ValidateFilename

SpecVF == InitVF /\ [][NextVF]_vars

-----------------------------------------------------------------------------
(* Claims about validate_filename.                                         *)

\* The text after the last dot of a name, empty when it has no dot.
AfterLastDot(name) ==
    IF RFind(name, ".") = 0 THEN << >>
    ELSE SubSeq(name, RFind(name, ".") + 1, Len(name))

\* The segments of a path: the texts between its separators.
RECURSIVE SplitOn(_, _)
SplitOn(s, seps) ==
    LET cuts == { k \in DOMAIN s : s[k] \in seps }
    IN  IF cuts = {} THEN <<s>>
        ELSE LET i == CHOOSE k \in cuts : \A j \in cuts : k <= j
             IN  <<SubSeq(s, 1, i - 1)>> \o SplitOn(SubSeq(s, i + 1, Len(s)), seps)

\* The predicate of the claim as it is worded: no segment is "..", no
\* separator, only allowed characters, and the extension is one of png, jpg,
\* jpeg.
ReferenceValid(name) ==
    /\ name # << >>
    /\ <<".", ".">> \notin Range(SplitOn(name, {"/", "\\"}))
    /\ "/" \notin Range(name) /\ "\\" \notin Range(name)
    /\ Range(name) \subseteq allowed_chars
    /\ AfterLastDot(name) \in { <<"p", "n", "g">>, <<"j", "p", "g">>,
                                <<"j", "p", "e", "g">> }

\* The predicate the code computes, said without the code's steps: some
\* extension of the three, in any mix of cases, ends the name after at least
\* one other character, and ".." occurs nowhere in the name.
EndsWithExtension(name) ==
    \E ext \in { <<"p", "n", "g">>, <<"j", "p", "g">>, <<"j", "p", "e", "g">> } :
        /\ Len(name) > Len(ext) + 1
        /\ name[Len(name) - Len(ext)] = "."
        /\ \A k \in 1..Len(ext) :
              \/ name[Len(name) - Len(ext) + k] = ext[k]
              \/ /\ ext[k] \in Range(Lowercase)
                 /\ \E u \in DOMAIN Uppercase :
                       /\ Lowercase[u] = ext[k]
                       /\ name[Len(name) - Len(ext) + k] = Uppercase[u]

AmendedValid(name) ==
    /\ name # << >>
    /\ \A i \in 1..(Len(name) - 1) : ~(name[i] = "." /\ name[i + 1] = ".")
    /\ "/" \notin Range(name) /\ "\\" \notin Range(name)
    /\ Range(name) \subseteq allowed_chars
    /\ EndsWithExtension(name)

\* C6, as claimed: validate_filename returns true exactly for the names that
\* are non-empty, have no parent-directory segment and no path separator,
\* consist of characters of [A-Za-z0-9_.-] and have an extension in
\* {png, jpg, jpeg}.
C6_MatchesReference ==
    vf_checked => (vf_result <=> ReferenceValid(vf_name))

\* C6, amended: validate_filename returns true exactly for the names that are
\* non-empty, contain ".." nowhere and no "/" or "\", consist of characters
\* of [A-Za-z0-9_.-] and end, in any mix of upper and lower case, in .png,
\* .jpg or .jpeg after at least one other character.
C6_MatchesAmended ==
    vf_checked => (vf_result <=> AmendedValid(vf_name))

\* validate_filename has returned true for "x.PNG", a name on which the two
\* predicates differ.
C6_Witness ==
    /\ vf_checked
    /\ vf_name = Name_x_PNG
    /\ vf_result = TRUE

-----------------------------------------------------------------------------
(* Dates.  The clock counts ticks, TicksPerDay of them a day; tick 0 is    *)
(* 2024-01-01 00:00:00 and a day is counted from that date.                *)

TicksPerDay == 2

\* datetime.date() of a clock reading, and whether it is midnight sharp.
Day(c) == c \div TicksPerDay
SecondsOfDay(c) == (c % TicksPerDay) * (86400 \div TicksPerDay)

\* The Gregorian calendar.
IsLeap(y) == (y % 4 = 0 /\ y % 100 # 0) \/ y % 400 = 0
DaysInMonth(y, m) ==
    IF m = 2 THEN (IF IsLeap(y) THEN 29 ELSE 28)
    ELSE IF m \in {4, 6, 9, 11} THEN 30 ELSE 31
RECURSIVE DaysBeforeMonth(_, _)
DaysBeforeMonth(y, m) ==
    IF m = 1 THEN 0 ELSE DaysBeforeMonth(y, m - 1) + DaysInMonth(y, m - 1)
LeapYearsBefore(y) == ((y - 1) \div 4) - ((y - 1) \div 100) + ((y - 1) \div 400)
DaysBeforeYear(y) ==
    365 * (y - 2024) + LeapYearsBefore(y) - LeapYearsBefore(2024)
DayNumber(y, m, d) == DaysBeforeYear(y) + DaysBeforeMonth(y, m) + d - 1

\* The month and the day of the month of the rest-th day (from 0) of year y,
\* looked for from month m on.
RECURSIVE MonthAndDay(_, _, _)
MonthAndDay(y, rest, m) ==
    IF rest < DaysInMonth(y, m) THEN [month |-> m, day |-> rest + 1]
    ELSE MonthAndDay(y, rest - DaysInMonth(y, m), m + 1)

\* The calendar date of a day, for the years around 2024.
DateOf(day) ==
    LET y == CHOOSE yy \in 2022..2026 :
                 DaysBeforeYear(yy) <= day /\ day < DaysBeforeYear(yy + 1)
        md == MonthAndDay(y, day - DaysBeforeYear(y), 1)
    IN  [year |-> y, month |-> md.month, day |-> md.day]

\* A number in w decimal digits, and the number a text of digits stands for.
RECURSIVE PadDigits(_, _)
PadDigits(n, w) ==
    IF w = 0 THEN << >> ELSE PadDigits(n \div 10, w - 1) \o <<Digits[(n % 10) + 1]>>
DigitValue(ch) == (CHOOSE i \in DOMAIN Digits : Digits[i] = ch) - 1
RECURSIVE NumberOf(_)
NumberOf(s) ==
    IF s = << >> THEN 0
    ELSE 10 * NumberOf(SubSeq(s, 1, Len(s) - 1)) + DigitValue(s[Len(s)])
DigitChars == Range(Digits)
IsDigits(s) == s # << >> /\ \A i \in DOMAIN s : s[i] \in DigitChars

\* date.strftime("%Y-%m-%d")
strftime_date(day) ==
    LET dt == DateOf(day)
    IN  PadDigits(dt.year, 4) \o <<"-">> \o PadDigits(dt.month, 2) \o <<"-">>
        \o PadDigits(dt.day, 2)

\* datetime.strptime(text, "%Y-%m-%d"): the day, or ValueError (ok = FALSE).
\* The year takes four digits, the month and the day one or two.
strptime_date(text) ==
    LET parts == SplitOn(text, {"-"})
        shaped == /\ Len(parts) = 3
                  /\ \A i \in 1..3 : IsDigits(parts[i])
                  /\ Len(parts[1]) = 4
                  /\ Len(parts[2]) \in 1..2
                  /\ Len(parts[3]) \in 1..2
        y == NumberOf(parts[1])
        m == NumberOf(parts[2])
        d == NumberOf(parts[3])
    IN  IF shaped /\ y >= 1 /\ m \in 1..12 /\ d >= 1 /\ d <= DaysInMonth(y, m)
        THEN [ok |-> TRUE, day |-> DayNumber(y, m, d)]
        ELSE [ok |-> FALSE, day |-> 0]

\* datetime.now().strftime("%Y%m%d_%H%M%S_%f")[:-3]; a tick falls on a whole
\* second.
strftime_stamp(c) ==
    LET dt == DateOf(Day(c))
        sec == SecondsOfDay(c)
    IN  PadDigits(dt.year, 4) \o PadDigits(dt.month, 2) \o PadDigits(dt.day, 2)
        \o <<"_">> \o PadDigits(sec \div 3600, 2)
        \o PadDigits((sec % 3600) \div 60, 2) \o PadDigits(sec % 60, 2)
        \o <<"_">> \o SubSeq(PadDigits(0, 6), 1, 3)

-----------------------------------------------------------------------------
(* Paths and the file system.  A path is the tuple of its segments, as     *)
(* pathlib keeps them; a place is where a path leads, the tuple of the     *)
(* directory names from the root.                                          *)

RootSeg == <<"/">>
DotDot == <<".", ".">>

\* FileManager.base_directory = Path("generated_images"), relative to the
\* working directory of the application.
base_directory ==
    << <<"g", "e", "n", "e", "r", "a", "t", "e", "d", "_", "i", "m", "a", "g",
         "e", "s">> >>
Cwd == << <<"a", "p", "p">> >>
BasePlace == Cwd \o base_directory

\* What else there is on the machine: /etc/passwd and the application's app.py.
OutsideDirs == { << <<"e", "t", "c">> >> }
OutsideFiles ==
    { << <<"e", "t", "c">>, <<"p", "a", "s", "s", "w", "d">> >>,
      Cwd \o << <<"a", "p", "p", ".", "p", "y">> >> }

\* path / name  (pathlib): empty and "." segments are dropped, ".." is kept,
\* and an absolute name replaces the path.
JoinPath(path, name) ==
    LET parts == SelectSeq(SplitOn(name, {"/"}),
                           LAMBDA seg : seg # << >> /\ seg # <<".">>)
    IN  IF name # << >> /\ name[1] = "/" THEN <<RootSeg>> \o parts
        ELSE path \o parts

Parent(place) ==
    IF place = << >> THEN << >> ELSE SubSeq(place, 1, Len(place) - 1)

IsDir(ds, place) ==
    \/ place \in {<< >>, Cwd, BasePlace}
    \/ place \in OutsideDirs
    \/ \E d \in ds : place = BasePlace \o <<d>>

IsFile(fs, place) ==
    \/ place \in OutsideFiles
    \/ \E f \in fs : place = BasePlace \o <<f.dir, f.name>>

\* The place a path names, each ".." taken from where the walk stands.
RECURSIVE Follow(_, _)
Follow(place, segs) ==
    IF segs = << >> THEN place
    ELSE Follow(IF Head(segs) = DotDot THEN Parent(place)
                ELSE place \o <<Head(segs)>>, Tail(segs))

Target(path) ==
    IF path # << >> /\ path[1] = RootSeg THEN Follow(<< >>, Tail(path))
    ELSE Follow(Cwd, path)

\* The walk the operating system makes: every segment but the last is taken
\* from an existing directory.
RECURSIVE Reachable(_, _, _)
Reachable(ds, place, segs) ==
    IF segs = << >> THEN TRUE
    ELSE /\ IsDir(ds, place)
         /\ Reachable(ds, IF Head(segs) = DotDot THEN Parent(place)
                          ELSE place \o <<Head(segs)>>, Tail(segs))

\* Path.exists()
exists(ds, fs, path) ==
    /\ IF path # << >> /\ path[1] = RootSeg THEN Reachable(ds, << >>, Tail(path))
       ELSE Reachable(ds, Cwd, path)
    /\ IsDir(ds, Target(path)) \/ IsFile(fs, Target(path))

\* A place is a file of a day bucket: base directory / a date / one name.
InDayBucket(place) ==
    /\ Len(place) = Len(BasePlace) + 2
    /\ SubSeq(place, 1, Len(BasePlace)) = BasePlace
    /\ strptime_date(place[Len(BasePlace) + 1]).ok

-----------------------------------------------------------------------------
(* FileManager: naming, saving and finding files.                          *)

\* hashlib.md5(prompt.encode('utf-8')).hexdigest()[:8] of the prompts used.
Prompts == {"a cat", "a dog"}
PromptHash(prompt) ==
    CASE prompt = "a cat" -> <<"c", "1", "d", "0", "e", "4", "4", "b">>
      [] prompt = "a dog" -> <<"9", "a", "e", "3", "1", "1", "6", "c">>

\* str.lstrip('.')
RECURSIVE LStripDots(_)
LStripDots(s) ==
    IF s # << >> /\ Head(s) = "." THEN LStripDots(Tail(s)) ELSE s

Ext_png == <<"p", "n", "g">>

\* FileManager.create_filename(prompt, extension) at clock reading c.
create_filename(prompt, extension, c) ==
    strftime_stamp(c) \o <<"_">> \o PromptHash(prompt) \o <<".">>
    \o LStripDots(extension)

\* FileManager.get_storage_path(date)
get_storage_path(day) == base_directory \o <<strftime_date(day)>>

\* The files after open(filepath, 'wb') and a write of size bytes.
WriteFile(fs, dir, name, size) ==
    { f \in fs : ~(f.dir = dir /\ f.name = name) }
    \cup { [dir |-> dir, name |-> name, size |-> size] }

\* What the operating system does to one save_file call.
SaveOutcomes == {"ok", "mkdir_error", "open_error", "write_error"}

\* FileManager.save_file(file_data, filename) with len(file_data) = size and no
\* date given.  c is the clock when the storage directory is chosen, c2 the
\* clock when the record is built; written is what a failed write left.
save_file(ds, fs, size, filename, c, c2, outcome, written) ==
    LET dir == strftime_date(Day(c))
        filepath == JoinPath(get_storage_path(Day(c)), filename)
    IN  CASE outcome = "mkdir_error" ->
               [dirs |-> ds, files |-> fs, raised |-> TRUE]
          [] outcome = "open_error" ->
               [dirs |-> ds \cup {dir}, files |-> fs, raised |-> TRUE]
          [] outcome = "write_error" ->
               [dirs |-> ds \cup {dir},
                files |-> WriteFile(fs, dir, filename, written),
                raised |-> TRUE]
          [] OTHER ->
               [dirs |-> ds \cup {dir},
                files |-> WriteFile(fs, dir, filename, size),
                raised |-> FALSE,
                record |-> [filename |-> filename,
                            filepath |-> filepath,
                            relative_path |-> <<dir>> \o <<filename>>,
                            size |-> size,
                            date |-> strftime_date(Day(c2))]]

\* range(7): the number of days get_file_path looks at, today first.
SearchOneDayLess == 7 - 1
search_days == 7

\* date=None
NoDate == {}

\* The loop of get_file_path from days_back = k on; probed is what has been
\* asked of the file system so far.
RECURSIVE SearchFrom(_, _, _, _, _, _)
SearchFrom(ds, fs, filename, c, k, probed) ==
    IF k >= search_days
    THEN [found |-> FALSE, path |-> << >>, probed |-> probed]
    ELSE LET filepath == JoinPath(get_storage_path(Day(c) - k), filename)
             asked == probed \cup {Target(filepath)}
         IN  IF exists(ds, fs, filepath)
             THEN [found |-> TRUE, path |-> filepath, probed |-> asked]
             ELSE SearchFrom(ds, fs, filename, c, k + 1, asked)

\* FileManager.get_file_path(filename, date) at clock reading c: whether a
\* path is returned, the path, and the places asked of the file system.
get_file_path(ds, fs, filename, date, c) ==
    IF date # NoDate
    THEN LET filepath == JoinPath(get_storage_path(CHOOSE d \in date : TRUE),
                                  filename)
             there == exists(ds, fs, filepath)
         IN  [found |-> there,
              path |-> IF there THEN filepath ELSE << >>,
              probed |-> {Target(filepath)}]
    ELSE SearchFrom(ds, fs, filename, c, 0, {})

-----------------------------------------------------------------------------
(* The store in use: files are saved and looked up while days pass.        *)

\* The clock runs to the end of day LookupDays.
LookupDays == 7
\* Files are saved on the days up to LastSaveDay.
LastSaveDay == 0
\* At most this many calls of the store.
MaxCalls == 2
\* The data of a file has at most this many bytes.
MaxSize == 2

Name_up_app_py == <<".", ".", "/", ".", ".", "/", "a", "p", "p", ".", "p", "y">>
Name_abs_passwd == <<"/", "e", "t", "c", "/", "p", "a", "s", "s", "w", "d">>

\* The names asked for besides those of the files there are.
ProbeNames == { Name_etc_passwd, Name_up_app_py, Name_abs_passwd, Name_x_exe }

LookupNames == { s.name : s \in saved } \cup { f.name : f \in files } \cup ProbeNames

LastTick(lastday) == lastday * TicksPerDay + TicksPerDay - 1

\* Time passes before a call, no later than the end of day lastday.
Tick(lastday) ==
    /\ calls < MaxCalls
    /\ \E c \in (clock + 1)..LastTick(lastday) : clock' = c
    /\ UNCHANGED <<max_age_days, dirs, files, cleanup_log, saved, calls, fs_last>>
    /\ UNCHANGED <<rlVars, vfVars, thVars, mwVars, rtVars>>

\* file_manager.save_file(data, create_filename(prompt, "png")): the name is
\* made and the storage directory chosen at the present clock reading; the
\* call returns at that reading or the next.
SaveFile(lastsave, lastday) ==
    \E prompt \in Prompts, size \in 0..MaxSize, outcome \in SaveOutcomes,
       c2 \in {clock, clock + 1}, written \in 0..MaxSize :
        LET filename == create_filename(prompt, Ext_png, clock)
            r == save_file(dirs, files, size, filename, clock, c2, outcome, written)
        IN  /\ calls < MaxCalls
            /\ Day(clock) <= lastsave
            /\ c2 <= LastTick(lastday)
            /\ IF outcome = "write_error" THEN written < size ELSE written = 0
            /\ dirs' = r.dirs
            /\ files' = r.files
            /\ clock' = c2
            /\ calls' = calls + 1
            /\ saved' = IF r.raised THEN saved
                        ELSE saved \cup { [name |-> filename, day |-> Day(clock),
                                           record |-> r.record] }
            /\ fs_last' = IF r.raised
                          THEN [op |-> "save_file", name |-> filename, at |-> clock,
                                size |-> size, raised |-> TRUE]
                          ELSE [op |-> "save_file", name |-> filename, at |-> clock,
                                size |-> size, raised |-> FALSE, record |-> r.record]
            /\ UNCHANGED <<max_age_days, cleanup_log>>
            /\ UNCHANGED <<rlVars, vfVars, thVars, mwVars, rtVars>>

\* file_manager.get_file_path(filename) or get_file_path(filename, date).
GetFilePath ==
    \E filename \in LookupNames, date \in {NoDate} \cup { {s.day} : s \in saved } :
        LET r == get_file_path(dirs, files, filename, date, clock)
        IN  /\ calls < MaxCalls
            /\ calls' = calls + 1
            /\ fs_last' = [op |-> "get_file_path", name |-> filename,
                           date |-> date, at |-> clock, found |-> r.found,
                           path |-> r.path, probed |-> r.probed]
            /\ UNCHANGED <<clock, max_age_days, dirs, files, cleanup_log, saved>>
            /\ UNCHANGED <<rlVars, vfVars, thVars, mwVars, rtVars>>

\* GET /download/<filename> (app.py): the name has no "/"; the path found is
\* sent, and with no path found filepath.exists() raises on None, which the
\* handler answers with 500.
download_image ==
    \E filename \in { n \in LookupNames : "/" \notin Range(n) } :
        LET r == get_file_path(dirs, files, filename, NoDate, clock)
        IN  /\ calls < MaxCalls
            /\ calls' = calls + 1
            /\ fs_last' = [op |-> "download_image", name |-> filename,
                           date |-> NoDate, at |-> clock, found |-> r.found,
                           path |-> r.path, probed |-> r.probed,
                           status |-> IF r.found THEN 200 ELSE 500]
            /\ UNCHANGED <<clock, max_age_days, dirs, files, cleanup_log, saved>>
            /\ UNCHANGED <<rlVars, vfVars, thVars, mwVars, rtVars>>

InitLookup == RateLimiterIdle /\ ValidateIdle /\ StoreIdle /\ ThreadsIdle /\ MiddlewareIdle /\ HandlersIdle

NextLookup ==
    \/ Tick(LookupDays)
    \/ SaveFile(LastSaveDay, LookupDays)
    \/ GetFilePath
    \/ download_image

SpecLookup == InitLookup /\ [][NextLookup]_vars

-----------------------------------------------------------------------------
(* Claims about saving and finding files.                                  *)

LastIsLookup == fs_last.op \in {"get_file_path", "download_image"}

\* C5: a lookup of a name that validate_filename rejects returns no path and
\* asks nothing of the file system, and no lookup asks for or returns a place
\* that is not a file of a day bucket.
C5_LookupValidatesFirst ==
    LastIsLookup =>
        /\ ~validate_filename(fs_last.name)
              => ~fs_last.found /\ fs_last.probed = {}
        /\ \A place \in fs_last.probed : InDayBucket(place)
        /\ fs_last.found => InDayBucket(Target(fs_last.path))

\* C7: a lookup without a date of the name of a saved file returns the path
\* save_file returned, on the day of the save and the six days after it, and
\* returns nothing from the seventh day on.
C7_FoundForSevenDays ==
    (LastIsLookup /\ fs_last.date = NoDate) =>
        \A s \in saved :
            s.name = fs_last.name =>
                /\ Day(fs_last.at) - s.day \in 0..6
                      => fs_last.found /\ fs_last.path = s.record.filepath
                /\ Day(fs_last.at) - s.day >= 7 => ~fs_last.found

\* A saved file is found, with the path of the save, six days after the save.
C7_Witness ==
    /\ fs_last.op = "get_file_path"
    /\ fs_last.date = NoDate
    /\ \E s \in saved :
          /\ s.name = fs_last.name
          /\ Day(fs_last.at) - s.day = 6
          /\ fs_last.found
          /\ fs_last.path = s.record.filepath

\* C8: save_file returns a record only when a file of the size of the data,
\* and not empty, is on disk; otherwise it raises.
C8_RecordOnlyForNonEmptyFile ==
    (fs_last.op = "save_file" /\ ~fs_last.raised) =>
        /\ fs_last.size > 0
        /\ fs_last.record.size = fs_last.size
        /\ \E f \in files : /\ f.name = fs_last.name
                            /\ f.size = fs_last.size

-----------------------------------------------------------------------------
(* FileManager.cleanup_old_files                                           *)

PycacheName == <<"_", "_", "p", "y", "c", "a", "c", "h", "e", "_", "_">>

\* sum(f["size"] for f in ...)
RECURSIVE SumSizes(_)
SumSizes(fs) ==
    IF fs = {} THEN 0
    ELSE LET f == CHOOSE x \in fs : TRUE
         IN  f.size + SumSizes(fs \ {f})

\* round(size / (1024 * 1024), 2), in hundredths of a megabyte.
size_mb(size) == (2 * 100 * size + 1048576) \div (2 * 1048576)

\* dir_date < cutoff_date, with cutoff_date = datetime.now() - max_age_days:
\* the directory's date is its midnight, the cutoff has the time of day of
\* the clock.
OlderThanCutoff(dirday, c, max_age) ==
    dirday * TicksPerDay < c - max_age * TicksPerDay

\* The first loop of cleanup_old_files at clock reading c: the directories
\* of the base directory, __pycache__ left out, whose name reads as a date
\* before the cutoff ...
old_directories(ds, c, max_age) ==
    { d \in ds :
        /\ d # PycacheName
        /\ LET parsed == strptime_date(d)
           IN  parsed.ok /\ OlderThanCutoff(parsed.day, c, max_age) }

\* ... and the files in them.
files_to_delete(ds, fs, c, max_age) ==
    LET old == old_directories(ds, c, max_age)
    IN  { f \in fs : f.dir \in old }

\* The description the loop keeps of each of them.
file_info(f, c) ==
    [filepath |-> JoinPath(base_directory \o <<f.dir>>, f.name),
     filename |-> f.name,
     size |-> f.size,
     date |-> f.dir,
     age_days |-> (c - strptime_date(f.dir).day * TicksPerDay) \div TicksPerDay]

\* "if not dry_run and files_to_delete"
PerformCleanupAlways(dry_run, found) == found # {}
PerformCleanup(dry_run, found) == ~dry_run /\ found # {}

\* The second loop: every directory of the base directory but __pycache__
\* that is empty once the files are gone.
EmptyDirectories(ds, fs) ==
    { d \in ds : d # PycacheName /\ ~\E f \in fs : f.dir = d }

\* The dictionary cleanup_old_files returns.
cleanup_result_of_deleted(dry_run, c, max_age, found, gone, gone_dirs) ==
    [dry_run |-> dry_run,
     cutoff_date |-> strftime_date(Day(c - max_age * TicksPerDay)),
     max_age_days |-> max_age,
     files_found |-> Cardinality(gone),
     files_deleted |-> Cardinality(gone),
     directories_deleted |-> Cardinality(gone_dirs),
     size_freed_bytes |-> SumSizes(gone),
     size_freed_mb |-> size_mb(SumSizes(gone)),
     potential_size_to_free_bytes |-> SumSizes(gone),
     potential_size_to_free_mb |-> size_mb(SumSizes(gone))]
cleanup_result(dry_run, c, max_age, found, deleted_files, deleted_directories) ==
    [dry_run |-> dry_run,
     cutoff_date |-> strftime_date(Day(c - max_age * TicksPerDay)),
     max_age_days |-> max_age,
     files_found |-> Cardinality(found),
     files_deleted |-> Cardinality(deleted_files),
     directories_deleted |-> Cardinality(deleted_directories),
     size_freed_bytes |-> SumSizes(deleted_files),
     size_freed_mb |-> size_mb(SumSizes(deleted_files)),
     potential_size_to_free_bytes |-> SumSizes(found),
     potential_size_to_free_mb |-> size_mb(SumSizes(found))]

\* The dictionary returned when the sweep raised.
cleanup_error(dry_run) ==
    [dry_run |-> dry_run, error |-> TRUE, files_found |-> 0,
     files_deleted |-> 0, size_freed_bytes |-> 0]

\* The line _log_cleanup_results appends to cleanup_log.txt.
log_entry(c, results) ==
    [timestamp |-> c, dry_run |-> results.dry_run,
     files_found |-> results.files_found,
     files_deleted |-> results.files_deleted,
     size_freed_mb |-> results.size_freed_mb]

\* filepath.unlink() of the files gone: what is left of the files fs.
UnlinkedNone(fs, gone) == fs
UnlinkedBucket(fs, gone) == { f \in fs : \A g \in gone : f.dir # g.dir }
Unlinked(fs, gone) == fs \ gone

\* The delete loop: deleted_files holds every file found whose unlink did not
\* raise; the try is inside the loop, so a failure ends one turn of it.
DeletedUntilFailure(found, unlink_fails) == IF unlink_fails = {} THEN found ELSE {}
DeletedFiles(found, unlink_fails) == found \ unlink_fails

\* cleanup_old_files from "Perform cleanup if not dry run" on, the first loop
\* having found the files found.  The operating system decides (os) which
\* unlink calls fail (unlink_fails), which rmdir calls fail (rmdir_fails) and
\* whether the log can be written (log_fails).
cleanup_found(ds, fs, log, c, max_age, dry_run, found, os) ==
    LET act == PerformCleanup(dry_run, found)
        deleted_files == IF act THEN DeletedFiles(found, os.unlink_fails) ELSE {}
        files_left == Unlinked(fs, deleted_files)
        deleted_directories ==
            IF act THEN EmptyDirectories(ds, files_left) \ os.rmdir_fails
            ELSE {}
        results == cleanup_result(dry_run, c, max_age, found,
                                  deleted_files, deleted_directories)
    IN  [dirs |-> ds \ deleted_directories,
         files |-> files_left,
         log |-> IF os.log_fails THEN log ELSE Append(log, log_entry(c, results)),
         results |-> results,
         found |-> found,
         deleted |-> deleted_files,
         removed |-> deleted_directories]

\* FileManager.cleanup_old_files(dry_run) at clock reading c; listing the
\* base directory may fail (scan_error).
cleanup_old_files(ds, fs, log, c, max_age, dry_run, os) ==
    IF os.scan_error
    THEN [dirs |-> ds, files |-> fs, log |-> log,
          results |-> cleanup_error(dry_run),
          found |-> {}, deleted |-> {}, removed |-> {}]
    ELSE cleanup_found(ds, fs, log, c, max_age, dry_run,
                       files_to_delete(ds, fs, c, max_age), os)

-----------------------------------------------------------------------------
(* The store being swept.                                                  *)

\* The clock runs to the end of day SweepDays.
SweepDays == 0
\* max_age_days ranges over 1..MaxAgeDays.
MaxAgeDays == 2
\* The store starts with at most MaxInitEntries files and empty directories.
MaxInitEntries == 2
\* At most this many calls to the operating system fail in one sweep.
MaxFailures == 1

ThumbsName == <<"t", "h", "u", "m", "b", "s">>

\* The day buckets the store starts with are those of the days from
\* -MaxAgeDays to 0; a bucket holds files save_file wrote on its day, and the
\* oldest may hold a file of another name put there by hand.
InitDays == (0 - MaxAgeDays)..0
InitFiles ==
    { [dir |-> strftime_date(d),
       name |-> create_filename("a cat", Ext_png, d * TicksPerDay),
       size |-> n] : d \in InitDays, n \in 1..MaxSize }
    \cup { [dir |-> strftime_date(0 - MaxAgeDays), name |-> Name_x_exe,
             size |-> 1] }

\* Directories that may be there with nothing in them.
InitEmptyDirs == { strftime_date(0 - 1), strftime_date(0), ThumbsName, PycacheName }

StoreWithFiles ==
    /\ clock = 0
    /\ max_age_days \in 1..MaxAgeDays
    /\ \E fs \in SUBSET InitFiles, empty \in SUBSET InitEmptyDirs :
          /\ Cardinality(fs) + Cardinality(empty) <= MaxInitEntries
          /\ \A f, g \in fs : (f.dir = g.dir /\ f.name = g.name) => f = g
          /\ files = fs
          /\ dirs = { f.dir : f \in fs } \cup empty
    /\ cleanup_log = << >>
    /\ saved = {}
    /\ calls = 0
    /\ fs_last = [op |-> "none"]

\* One call of file_manager.cleanup_old_files(dry_run).  Only a call that is
\* made can fail.
CleanupOldFiles ==
    LET found == files_to_delete(dirs, files, clock, max_age_days)
    IN
    \E dry_run \in BOOLEAN, scan_error \in BOOLEAN, log_fails \in BOOLEAN :
        LET acts == ~scan_error /\ PerformCleanup(dry_run, found)
        IN  \E unlink_fails \in SUBSET (IF acts THEN found ELSE {}) :
            \E rmdir_fails \in
                 SUBSET (IF acts
                         THEN EmptyDirectories(dirs, files \ (found \ unlink_fails))
                         ELSE {}) :
              LET os == [scan_error |-> scan_error, unlink_fails |-> unlink_fails,
                         rmdir_fails |-> rmdir_fails, log_fails |-> log_fails]
                  \* cleanup_old_files(dirs, files, ..., dry_run, os), the
                  \* files found taken from above
                  r == IF scan_error
                       THEN cleanup_old_files(dirs, files, cleanup_log, clock,
                                              max_age_days, dry_run, os)
                       ELSE cleanup_found(dirs, files, cleanup_log, clock,
                                          max_age_days, dry_run, found, os)
              IN  /\ calls < MaxCalls
                  /\ Cardinality(unlink_fails) + Cardinality(rmdir_fails)
                        + (IF scan_error THEN 1 ELSE 0)
                        + (IF log_fails THEN 1 ELSE 0) <= MaxFailures
                  /\ dirs' = r.dirs
                  /\ files' = r.files
                  /\ cleanup_log' = r.log
                  /\ calls' = calls + 1
                  /\ fs_last' =
                        [op |-> "cleanup_old_files", dry_run |-> dry_run,
                         at |-> clock,
                         before |-> [dirs |-> dirs, files |-> files],
                         after |-> [dirs |-> r.dirs, files |-> r.files],
                         results |-> r.results,
                         found |-> r.found,
                         deleted |-> r.deleted,
                         removed |-> r.removed,
                         unlink_fails |-> unlink_fails,
                         rmdir_fails |-> rmdir_fails,
                         log_fails |-> log_fails,
                         logged |-> Len(r.log) - Len(cleanup_log),
                         previous |->
                             IF fs_last.op = "cleanup_old_files"
                             THEN [op |-> fs_last.op, dry_run |-> fs_last.dry_run,
                                   at |-> fs_last.at, after |-> fs_last.after,
                                   results |-> fs_last.results,
                                   found |-> fs_last.found,
                                   deleted |-> fs_last.deleted]
                             ELSE [op |-> "none"]]
                  /\ UNCHANGED <<clock, max_age_days, saved>>
                  /\ UNCHANGED <<rlVars, vfVars, thVars, mwVars, rtVars>>

InitSweep == RateLimiterIdle /\ ValidateIdle /\ StoreWithFiles /\ ThreadsIdle /\ MiddlewareIdle /\ HandlersIdle

NextSweep ==
    \/ Tick(SweepDays)
    \/ CleanupOldFiles

SpecSweep == InitSweep /\ [][NextSweep]_vars

-----------------------------------------------------------------------------
(* Claims about the sweep.                                                 *)

LastIsCleanup == fs_last.op = "cleanup_old_files"

Failed(results) == "error" \in DOMAIN results

\* C9: a dry run leaves every file and every directory of the store where it
\* was.
C9_DryRunDeletesNothing ==
    (LastIsCleanup /\ fs_last.dry_run) => fs_last.after = fs_last.before

\* A dry run has found files to delete, in a store that also has an empty
\* directory, and all of it is still there.
C9_Witness ==
    /\ LastIsCleanup
    /\ fs_last.dry_run
    /\ ~Failed(fs_last.results)
    /\ fs_last.results.files_found > 0
    /\ EmptyDirectories(fs_last.before.dirs, fs_last.before.files) # {}
    /\ fs_last.after = fs_last.before
    /\ dirs = fs_last.before.dirs /\ files = fs_last.before.files

\* The last two calls were a dry run and then a real sweep, at one clock
\* reading, with nothing done to the store in between, and neither raised.
DryRunThenSweep ==
    /\ LastIsCleanup
    /\ ~fs_last.dry_run
    /\ fs_last.previous.op = "cleanup_old_files"
    /\ fs_last.previous.dry_run
    /\ fs_last.previous.at = fs_last.at
    /\ fs_last.previous.after = fs_last.before
    /\ ~Failed(fs_last.results)
    /\ ~Failed(fs_last.previous.results)

\* C10: a dry run and the real sweep that follows it with no change in
\* between report the same files_found and potential_size_to_free_bytes.
C10_DryRunPredictsSweep ==
    DryRunThenSweep =>
        /\ fs_last.results.files_found = fs_last.previous.results.files_found
        /\ fs_last.results.potential_size_to_free_bytes
              = fs_last.previous.results.potential_size_to_free_bytes

\* The dry run found files, and the sweep after it found the same and
\* deleted fewer than it found.
C10_Witness ==
    /\ DryRunThenSweep
    /\ fs_last.previous.results.files_found > 1
    /\ fs_last.results.files_found = fs_last.previous.results.files_found
    /\ fs_last.results.potential_size_to_free_bytes
          = fs_last.previous.results.potential_size_to_free_bytes
    /\ fs_last.results.files_deleted < fs_last.results.files_found
    /\ fs_last.results.files_deleted > 0

\* The last call was a real sweep that returned a report.
RealSweep == LastIsCleanup /\ ~fs_last.dry_run /\ ~Failed(fs_last.results)

\* The last two calls were real sweeps, at one clock reading, with nothing
\* done to the store in between, and both returned a report.
SweepThenSweep ==
    /\ RealSweep
    /\ fs_last.previous.op = "cleanup_old_files"
    /\ ~fs_last.previous.dry_run
    /\ fs_last.previous.at = fs_last.at
    /\ fs_last.previous.after = fs_last.before
    /\ ~Failed(fs_last.previous.results)

\* C11 as stated: the second of two real sweeps in immediate succession
\* finds none of the files the first one found, and deletes nothing.
C11_SecondSweepFindsNothing ==
    SweepThenSweep =>
        /\ fs_last.found \cap fs_last.previous.found = {}
        /\ fs_last.deleted = {}
        /\ fs_last.after = fs_last.before

\* C11: the second of two real sweeps in immediate succession finds exactly
\* the files the first one found and could not delete; when the first one
\* deleted all it found, the second finds nothing and leaves the store as it
\* was.  It returns a report either way.
C11_SecondSweepFindsLeftovers ==
    SweepThenSweep =>
        /\ fs_last.found = fs_last.previous.found \ fs_last.previous.deleted
        /\ fs_last.found \cap fs_last.previous.deleted = {}
        /\ fs_last.previous.deleted = fs_last.previous.found
              => /\ fs_last.results.files_found = 0
                 /\ fs_last.results.files_deleted = 0
                 /\ fs_last.after = fs_last.before

\* The first sweep deleted the two files it found, and the second found none.
C11_Witness ==
    /\ SweepThenSweep
    /\ fs_last.previous.results.files_deleted = 2
    /\ fs_last.previous.deleted = fs_last.previous.found
    /\ fs_last.results.files_found = 0
    /\ fs_last.after = fs_last.before

\* The directories of a tree whose name reads as a date, and the files of a
\* directory.
DayBuckets(ds) == { d \in ds : strptime_date(d).ok }
FilesOf(fs, d) == { f \in fs : f.dir = d }

\* The date of a bucket is before the date max_age_days before today's.
DatedBeforeCutoff(d, c, max_age) ==
    strptime_date(d).ok /\ strptime_date(d).day < Day(c) - max_age

\* C12: the files a sweep finds are those of the buckets dated before
\* today - max_age_days, and no file of another bucket is lost.
C12_CandidatesAreOlderBuckets ==
    (LastIsCleanup /\ ~Failed(fs_last.results)) =>
        /\ fs_last.found =
              { f \in fs_last.before.files :
                  DatedBeforeCutoff(f.dir, fs_last.at, max_age_days) }
        /\ \A f \in fs_last.before.files \ fs_last.after.files :
              DatedBeforeCutoff(f.dir, fs_last.at, max_age_days)

\* C13: a real sweep removes a day bucket if and only if the bucket had
\* files, all of them were found and all of them were deleted; a bucket that
\* is not older than the cutoff is never removed.
C13_BucketRemovedIffEmptied ==
    RealSweep =>
        \A d \in DayBuckets(fs_last.before.dirs) :
            LET had == FilesOf(fs_last.before.files, d)
            IN  /\ d \in fs_last.removed
                      => /\ had \subseteq fs_last.found
                         /\ had \subseteq fs_last.deleted
                         /\ OlderThanCutoff(strptime_date(d).day, fs_last.at,
                                            max_age_days)
                /\ (had # {} /\ had \subseteq fs_last.deleted
                       /\ d \notin fs_last.rmdir_fails)
                      => d \in fs_last.removed

\* C14: a sweep finds no file of a directory whose name is not a date, and
\* leaves the directory and its files where they were.
C14_NonDateDirectoriesSkipped ==
    LastIsCleanup =>
        \A d \in fs_last.before.dirs \ DayBuckets(fs_last.before.dirs) :
            /\ FilesOf(fs_last.found, d) = {}
            /\ d \in fs_last.after.dirs
            /\ FilesOf(fs_last.after.files, d) = FilesOf(fs_last.before.files, d)

\* C17: every call of cleanup_old_files appends one line to the cleanup log,
\* and the line says whether the call was a dry run.
C17_EverySweepLogged ==
    LastIsCleanup =>
        /\ fs_last.logged = 1
        /\ cleanup_log[Len(cleanup_log)].dry_run = fs_last.dry_run

-----------------------------------------------------------------------------
(* FileManager.schedule_cleanup and the cleanup log as text.               *)

\* The seconds from tick 0 to a clock reading.
Seconds(c) == c * (86400 \div TicksPerDay)

\* datetime.isoformat() of a clock reading; a tick falls on a whole second,
\* so there is no fraction.
isoformat(c) ==
    LET sec == SecondsOfDay(c)
    IN  strftime_date(Day(c)) \o <<"T">> \o PadDigits(sec \div 3600, 2)
        \o <<":">> \o PadDigits((sec % 3600) \div 60, 2)
        \o <<":">> \o PadDigits(sec % 60, 2)

\* datetime.fromisoformat(text) of a date and a time to the second: the
\* seconds from tick 0, or ValueError (ok = FALSE).
fromisoformat(text) ==
    LET shaped == /\ Len(text) = 19
                  /\ text[5] = "-" /\ text[8] = "-"
                  /\ text[14] = ":" /\ text[17] = ":"
                  /\ \A i \in {1, 2, 3, 4, 6, 7, 9, 10, 12, 13, 15, 16, 18, 19} :
                        text[i] \in DigitChars
        y == NumberOf(SubSeq(text, 1, 4))
        m == NumberOf(SubSeq(text, 6, 7))
        d == NumberOf(SubSeq(text, 9, 10))
        hh == NumberOf(SubSeq(text, 12, 13))
        mm == NumberOf(SubSeq(text, 15, 16))
        ss == NumberOf(SubSeq(text, 18, 19))
    IN  IF /\ shaped
           /\ y >= 1 /\ m \in 1..12 /\ d >= 1 /\ d <= DaysInMonth(y, m)
           /\ hh <= 23 /\ mm <= 59 /\ ss <= 59
        THEN [ok |-> TRUE,
              seconds |-> DayNumber(y, m, d) * 86400 + hh * 3600 + mm * 60 + ss]
        ELSE [ok |-> FALSE, seconds |-> 0]

\* str(n) of a natural number.
RECURSIVE NumberText(_)
NumberText(n) ==
    IF n < 10 THEN <<Digits[n + 1]>>
    ELSE NumberText(n \div 10) \o <<Digits[(n % 10) + 1]>>

\* str(x) of a number of megabytes rounded to hundredths, h hundredths.
MegabytesText(h) ==
    NumberText(h \div 100) \o <<".">>
    \o (IF h % 10 = 0 THEN <<Digits[((h % 100) \div 10) + 1]>>
        ELSE PadDigits(h % 100, 2))

Text_sep == <<" ", "-", " ">>
Text_Cleanup == <<"C", "l", "e", "a", "n", "u", "p", " ">>
Text_DRY_RUN == <<"(", "D", "R", "Y", " ", "R", "U", "N", ")">>
Text_Found == <<":", " ", "F", "o", "u", "n", "d", " ">>
Text_files_Deleted == <<" ", "f", "i", "l", "e", "s", ",", " ", "D", "e", "l", "e", "t", "e", "d", " ">>
Text_files_Freed == <<" ", "f", "i", "l", "e", "s", ",", " ", "F", "r", "e", "e", "d", " ">>
Text_MB == <<" ", "M", "B", "\n">>

\* The text _log_cleanup_results writes for a log entry.
log_line(entry) ==
    isoformat(entry.timestamp) \o Text_sep \o Text_Cleanup
    \o (IF entry.dry_run THEN Text_DRY_RUN ELSE << >>)
    \o Text_Found \o NumberText(entry.files_found)
    \o Text_files_Deleted \o NumberText(entry.files_deleted)
    \o Text_files_Freed \o MegabytesText(entry.size_freed_mb) \o Text_MB

\* str.strip()
Whitespace == {" ", "\n", "\t", "\r"}
RECURSIVE LStrip(_)
LStrip(s) == IF s # << >> /\ Head(s) \in Whitespace THEN LStrip(Tail(s)) ELSE s
RECURSIVE RStrip(_)
RStrip(s) ==
    IF s # << >> /\ s[Len(s)] \in Whitespace
    THEN RStrip(SubSeq(s, 1, Len(s) - 1)) ELSE s
strip(s) == LStrip(RStrip(s))

\* The text before the last sub, all of s when there is none.
SplitLast(s, sub) ==
    LET at == { i \in 1..(Len(s) - Len(sub) + 1) :
                  SubSeq(s, i, i + Len(sub) - 1) = sub }
    IN  IF at = {} THEN s
        ELSE SubSeq(s, 1, (CHOOSE i \in at : \A j \in at : i >= j) - 1)

\* s.split(sub)[0]: the text before the first sub, all of s when there is none.
SplitFirst(s, sub) ==
    LET at == { i \in 1..(Len(s) - Len(sub) + 1) :
                  SubSeq(s, i, i + Len(sub) - 1) = sub }
    IN  IF at = {} THEN s
        ELSE SubSeq(s, 1, (CHOOSE i \in at : \A j \in at : i <= j) - 1)

\* The time of the last line of the log that is not of a dry run.
RECURSIVE _get_last_real_cleanup_time(_)
_get_last_real_cleanup_time(log) ==
    IF log = << >> THEN [ok |-> FALSE, seconds |-> 0]
    ELSE IF log[Len(log)].dry_run
    THEN _get_last_real_cleanup_time(SubSeq(log, 1, Len(log) - 1))
    ELSE fromisoformat(SplitFirst(strip(log_line(log[Len(log)])), Text_sep))

\* FileManager._get_last_cleanup_time() of the log: the time the last line
\* starts with, or None (ok = FALSE) with no log, an empty log, a blank last
\* line or a last line that does not start with a time.
_get_last_cleanup_time(log) ==
    IF log = << >> THEN [ok |-> FALSE, seconds |-> 0]
    ELSE LET last_line == strip(log_line(log[Len(log)]))
         IN  IF last_line = << >> THEN [ok |-> FALSE, seconds |-> 0]
             ELSE fromisoformat(SplitFirst(last_line, Text_sep))

\* The same of a log file given as text, file.lines being what readlines()
\* returns: None when the file is not there, has no line, or ends with a
\* line that is blank or does not start with a time.
last_cleanup_of_file(file) ==
    IF ~file.exists THEN [ok |-> FALSE, seconds |-> 0]
    ELSE IF file.lines = << >> THEN [ok |-> FALSE, seconds |-> 0]
    ELSE LET last_line == strip(file.lines[Len(file.lines)])
         IN  IF last_line = << >> THEN [ok |-> FALSE, seconds |-> 0]
             ELSE fromisoformat(SplitFirst(last_line, Text_sep))

\* "force or not last_cleanup or (now - last_cleanup).total_seconds() > 86400"
CleanupDueAtOrAfter(force, last_time, c) ==
    force \/ ~last_time.ok \/ Seconds(c) - last_time.seconds >= 86400
CleanupDue(force, last_time, c) ==
    force \/ ~last_time.ok \/ Seconds(c) - last_time.seconds > 86400

\* The dictionary schedule_cleanup returns when no cleanup is due.
not_needed_elapsed(last_time, c) ==
    [cleanup_performed |-> FALSE,
     last_cleanup |-> last_time.seconds,
     next_cleanup_in_seconds |-> Seconds(c) - last_time.seconds]
not_needed(last_time, c) ==
    [cleanup_performed |-> FALSE,
     last_cleanup |-> last_time.seconds,
     next_cleanup_in_seconds |-> 86400 - (Seconds(c) - last_time.seconds)]

\* FileManager.schedule_cleanup(force) at clock reading c.
schedule_cleanup(ds, fs, log, c, max_age, force, os) ==
    LET last_time == _get_last_cleanup_time(log)
    IN  IF CleanupDue(force, last_time, c)
        THEN [performed |-> TRUE,
              sweep |-> cleanup_old_files(ds, fs, log, c, max_age, FALSE, os)]
        ELSE [performed |-> FALSE,
              sweep |-> [dirs |-> ds, files |-> fs, log |-> log,
                         results |-> not_needed(last_time, c),
                         found |-> {}, deleted |-> {}, removed |-> {}]]

-----------------------------------------------------------------------------
(* The store swept on a schedule.                                          *)

\* The clock runs to the end of day ScheduleDays.
ScheduleDays == 1

\* The store starts with at most one file, and no log.
StoreForSchedule ==
    /\ clock = 0
    /\ max_age_days \in 1..MaxAgeDays
    /\ \E fs \in SUBSET InitFiles :
          /\ Cardinality(fs) <= 1
          /\ files = fs
          /\ dirs = { f.dir : f \in fs }
    /\ cleanup_log = << >>
    /\ saved = {}
    /\ calls = 0
    /\ fs_last = [op |-> "none"]

\* The last line of the log, as the entry it was written from.
LastLogged(log) ==
    IF log = << >> THEN [logged |-> FALSE]
    ELSE [logged |-> TRUE, timestamp |-> log[Len(log)].timestamp,
          dry_run |-> log[Len(log)].dry_run]

\* One call of file_manager.schedule_cleanup(force).  Only a call that is
\* made can fail.
ScheduleCleanup ==
    LET found == files_to_delete(dirs, files, clock, max_age_days)
    IN
    \E force \in BOOLEAN, scan_error \in BOOLEAN, log_fails \in BOOLEAN :
        LET due == CleanupDue(force, _get_last_cleanup_time(cleanup_log), clock)
            acts == due /\ ~scan_error /\ PerformCleanup(FALSE, found)
        IN  \E unlink_fails \in SUBSET (IF acts THEN found ELSE {}) :
            \E rmdir_fails \in
                 SUBSET (IF acts
                         THEN EmptyDirectories(dirs, files \ (found \ unlink_fails))
                         ELSE {}) :
              LET os == [scan_error |-> scan_error, unlink_fails |-> unlink_fails,
                         rmdir_fails |-> rmdir_fails, log_fails |-> log_fails]
                  r == schedule_cleanup(dirs, files, cleanup_log, clock,
                                        max_age_days, force, os)
              IN  /\ calls < MaxCalls
                  /\ Cardinality(unlink_fails) + Cardinality(rmdir_fails)
                        + (IF scan_error THEN 1 ELSE 0)
                        + (IF log_fails THEN 1 ELSE 0) <= MaxFailures
                  /\ ~due => ~scan_error /\ ~log_fails
                  /\ dirs' = r.sweep.dirs
                  /\ files' = r.sweep.files
                  /\ cleanup_log' = r.sweep.log
                  /\ calls' = calls + 1
                  /\ fs_last' =
                        [op |-> "schedule_cleanup", force |-> force,
                         at |-> clock,
                         performed |-> r.performed,
                         last |-> LastLogged(cleanup_log),
                         before |-> [dirs |-> dirs, files |-> files],
                         after |-> [dirs |-> r.sweep.dirs,
                                    files |-> r.sweep.files],
                         results |-> r.sweep.results,
                         logged |-> Len(r.sweep.log) - Len(cleanup_log)]
                  /\ UNCHANGED <<clock, max_age_days, saved>>
                  /\ UNCHANGED <<rlVars, vfVars, thVars, mwVars, rtVars>>

InitSchedule == RateLimiterIdle /\ ValidateIdle /\ StoreForSchedule /\ ThreadsIdle /\ MiddlewareIdle /\ HandlersIdle

NextSchedule ==
    \/ Tick(ScheduleDays)
    \/ CleanupOldFiles
    \/ ScheduleCleanup

SpecSchedule == InitSchedule /\ [][NextSchedule]_vars

-----------------------------------------------------------------------------
(* Claims about the schedule.                                              *)

LastIsSchedule == fs_last.op = "schedule_cleanup"

\* The seconds from the last line of the log to the call.
Elapsed == Seconds(fs_last.at) - Seconds(fs_last.last.timestamp)

\* C15: a call of schedule_cleanup without force finds a cleanup due when
\* there is no log, and otherwise exactly when more than 24 hours have gone
\* by since the time of the last line of the log; so it finds none due
\* right after a sweep that logged.
C15_DueAfterADay ==
    (LastIsSchedule /\ ~fs_last.force) =>
        /\ ~fs_last.last.logged => fs_last.performed
        /\ fs_last.last.logged => (fs_last.performed <=> Elapsed > 86400)
        /\ (fs_last.last.logged /\ Elapsed = 0) => ~fs_last.performed

\* A sweep logged, more than a day went by, and the scheduled call swept.
C15_Witness ==
    /\ LastIsSchedule
    /\ ~fs_last.force
    /\ fs_last.last.logged
    /\ Elapsed > 86400
    /\ fs_last.performed
    /\ fs_last.logged = 1

\* C16: schedule_cleanup with force sweeps in every state; without force it
\* sweeps only when a cleanup is due, and otherwise changes nothing and
\* returns the seconds left of the 24 hours.  The sweep is not a dry run.
C16_SweepsOnlyWhenDue ==
    LastIsSchedule =>
        /\ fs_last.force => fs_last.performed
        /\ (fs_last.performed /\ ~Failed(fs_last.results))
              => ~fs_last.results.dry_run
        /\ (~fs_last.force /\ fs_last.last.logged /\ Elapsed <= 86400)
              => ~fs_last.performed
        /\ ~fs_last.performed
              => /\ fs_last.after = fs_last.before
                 /\ dirs = fs_last.before.dirs /\ files = fs_last.before.files
                 /\ fs_last.logged = 0
                 /\ ~fs_last.results.cleanup_performed
                 /\ fs_last.results.next_cleanup_in_seconds = 86400 - Elapsed

\* With files old enough to delete in the store, a call half a day after
\* the last sweep did nothing and said that half a day is left.
C16_Witness ==
    /\ LastIsSchedule
    /\ ~fs_last.performed
    /\ files_to_delete(dirs, files, clock, max_age_days) # {}
    /\ Elapsed > 0
    /\ fs_last.results.next_cleanup_in_seconds = 86400 - Elapsed
    /\ fs_last.results.next_cleanup_in_seconds > 0

-----------------------------------------------------------------------------
(* Threads: cleanup_old_files and save_file a step at a time.  Nothing in  *)
(* FileManager takes a lock, so the steps of the threads interleave freely. *)
(* A step is one call to the operating system, or one pass of a loop; the  *)
(* operating system fails a call only for what another thread has done.    *)

\* schedule_cleanup() up to its decision, in the scheduled thread.
ScheduleDecides ==
    /\ sweeps["scheduled"].pc = "idle"
    /\ sweeps' = [sweeps EXCEPT !["scheduled"].pc =
          IF CleanupDue(FALSE, _get_last_cleanup_time(cleanup_log), clock)
          THEN "start" ELSE "done"]
    /\ UNCHANGED <<fsVars, saver>>
    /\ UNCHANGED <<rlVars, vfVars, mwVars, rtVars>>

\* The thread is at the head of cleanup_old_files(dry_run=False).
AtStart(s) ==
    \/ s = "manual" /\ sweeps[s].pc = "idle"
    \/ s = "scheduled" /\ sweeps[s].pc = "start"

\* The first loop lists the directories that are old and the files in them.
ListOldFiles(s) ==
    /\ AtStart(s)
    /\ sweeps' = [sweeps EXCEPT ![s].pc = "stat",
                                ![s].at = clock,
                                ![s].listed =
                                    files_to_delete(dirs, files, clock, max_age_days)]
    /\ UNCHANGED <<fsVars, saver>>
    /\ UNCHANGED <<rlVars, vfVars, mwVars, rtVars>>

\* filepath.stat() of the files listed: one that is gone by now raises, and
\* the except branch of cleanup_old_files returns without a log line.
StatListed(s) ==
    /\ sweeps[s].pc = "stat"
    /\ sweeps' = [sweeps EXCEPT ![s] =
          IF sweeps[s].listed \subseteq files
          THEN [@ EXCEPT !.pc = IF PerformCleanup(sweeps[s].dry_run, sweeps[s].listed)
                                THEN "delete" ELSE "log",
                         !.found = sweeps[s].listed,
                         !.todo = sweeps[s].listed]
          ELSE [@ EXCEPT !.pc = "done", !.raised = TRUE]]
    /\ UNCHANGED <<fsVars, saver>>
    /\ UNCHANGED <<rlVars, vfVars, mwVars, rtVars>>

\* One pass of the delete loop: "if filepath.exists(): filepath.unlink()".
DeleteOne(s) ==
    /\ sweeps[s].pc = "delete"
    /\ \E f \in sweeps[s].todo :
          LET there == f \in files
              todo == sweeps[s].todo \ {f}
          IN  /\ files' = IF there THEN Unlinked(files, {f}) ELSE files
              /\ sweeps' = [sweeps EXCEPT
                    ![s].todo = todo,
                    ![s].deleted = IF there THEN @ \cup {f} ELSE @,
                    ![s].pc = IF todo = {} THEN "prune_list" ELSE "delete"]
    /\ UNCHANGED <<clock, max_age_days, dirs, cleanup_log, saved, calls, fs_last>>
    /\ UNCHANGED saver
    /\ UNCHANGED <<rlVars, vfVars, mwVars, rtVars>>

\* self.base_directory.iterdir() of the pruning loop.
ListDirectories(s) ==
    /\ sweeps[s].pc = "prune_list"
    /\ sweeps' = [sweeps EXCEPT ![s].prune_todo = dirs,
                                ![s].pc = IF dirs = {} THEN "log" ELSE "prune"]
    /\ UNCHANGED <<fsVars, saver>>
    /\ UNCHANGED <<rlVars, vfVars, mwVars, rtVars>>

\* One pass of the pruning loop: a directory that is there, is not
\* __pycache__ and is empty is removed; rmdir fails on one that is not empty.
PruneOne(s) ==
    /\ sweeps[s].pc = "prune"
    /\ \E d \in sweeps[s].prune_todo :
          LET empty == d \in EmptyDirectories(dirs, files)
              todo == sweeps[s].prune_todo \ {d}
          IN  /\ dirs' = IF empty THEN dirs \ {d} ELSE dirs
              /\ sweeps' = [sweeps EXCEPT
                    ![s].prune_todo = todo,
                    ![s].removed = IF empty THEN @ \cup {d} ELSE @,
                    ![s].pc = IF todo = {} THEN "log" ELSE "prune"]
    /\ UNCHANGED <<clock, max_age_days, files, cleanup_log, saved, calls, fs_last>>
    /\ UNCHANGED saver
    /\ UNCHANGED <<rlVars, vfVars, mwVars, rtVars>>

\* self._log_cleanup_results(cleanup_result), and the return.
LogResults(s) ==
    /\ sweeps[s].pc = "log"
    /\ cleanup_log' =
          Append(cleanup_log,
                 log_entry(clock,
                           cleanup_result(sweeps[s].dry_run, sweeps[s].at, max_age_days,
                                          sweeps[s].found, sweeps[s].deleted,
                                          sweeps[s].removed)))
    /\ sweeps' = [sweeps EXCEPT ![s].pc = "done"]
    /\ UNCHANGED <<clock, max_age_days, dirs, files, saved, calls, fs_last>>
    /\ UNCHANGED saver
    /\ UNCHANGED <<rlVars, vfVars, mwVars, rtVars>>

\* The file the saving thread writes.
SavedFile == [dir |-> saver.dir, name |-> saver.name, size |-> saver.size]

\* save_file(data, filename) or save_file(data, filename, date) begins:
\* ensure_storage_directory makes the bucket, or finds it there.
EnsureStorageDirectory ==
    /\ saver.pc = "idle"
    /\ \E date \in {NoDate, {0 - MaxAgeDays}} :
          LET day == IF date = NoDate THEN Day(clock)
                     ELSE CHOOSE d \in date : TRUE
              dir == get_storage_path(day)[Len(base_directory) + 1]
          IN  /\ dirs' = dirs \cup {dir}
              /\ saver' = [pc |-> "open", dir |-> dir,
                           name |-> create_filename("a dog", Ext_png, clock),
                           size |-> 1, enumerated |-> {}]
    /\ UNCHANGED <<clock, max_age_days, files, cleanup_log, saved, calls, fs_last>>
    /\ UNCHANGED sweeps
    /\ UNCHANGED <<rlVars, vfVars, mwVars, rtVars>>

\* open(filepath, 'wb') and f.write(file_data): open raises when the bucket
\* is no longer there, and save_file raises RuntimeError.  enumerated keeps
\* the threads whose first loop had listed its files by then.
OpenAndWrite ==
    /\ saver.pc = "open"
    /\ IF saver.dir \in dirs
       THEN /\ files' = WriteFile(files, saver.dir, saver.name, saver.size)
            /\ saver' = [saver EXCEPT
                  !.pc = "stat",
                  !.enumerated =
                      { s \in Sweepers : sweeps[s].pc \notin {"idle", "start"} }]
       ELSE /\ files' = files
            /\ saver' = [saver EXCEPT !.pc = "failed"]
    /\ UNCHANGED <<clock, max_age_days, dirs, cleanup_log, saved, calls, fs_last>>
    /\ UNCHANGED sweeps
    /\ UNCHANGED <<rlVars, vfVars, mwVars, rtVars>>

\* filepath.stat().st_size and the return of the record: stat raises when
\* the file is no longer there, and save_file raises RuntimeError.
StatAndReturn ==
    /\ saver.pc = "stat"
    /\ saver' = [saver EXCEPT !.pc = IF SavedFile \in files THEN "done"
                                     ELSE "failed"]
    /\ UNCHANGED <<fsVars, sweeps>>
    /\ UNCHANGED <<rlVars, vfVars, mwVars, rtVars>>

InitThreads == RateLimiterIdle /\ ValidateIdle /\ StoreForSchedule /\ ThreadsIdle /\ MiddlewareIdle /\ HandlersIdle

SweepStep(s) ==
    \/ ListOldFiles(s)
    \/ StatListed(s)
    \/ DeleteOne(s)
    \/ ListDirectories(s)
    \/ PruneOne(s)
    \/ LogResults(s)

NextThreads ==
    \/ Tick(SweepDays)
    \/ ScheduleDecides
    \/ \E s \in Sweepers : SweepStep(s)
    \/ EnsureStorageDirectory
    \/ OpenAndWrite
    \/ StatAndReturn

SpecThreads == InitThreads /\ [][NextThreads]_vars

-----------------------------------------------------------------------------
(* Claims about the threads.                                               *)

\* The thread is between the start of its enumeration and its return.
Sweeping(s) == sweeps[s].pc \in {"stat", "delete", "prune_list", "prune", "log"}

\* C18: the scheduled and the manual sweep are never both between the start
\* of the enumeration and the return.
C18_SweepsDoNotOverlap ==
    ~(Sweeping("scheduled") /\ Sweeping("manual"))

\* The saving thread has written its file.
Written == saver.pc \in {"stat", "done"}

\* C19: a sweep deletes only files it found; the file save_file wrote is not
\* deleted by a sweep that had enumerated before the write; and no directory
\* goes while a file is in it.
C19_SweepDeletesOnlyWhatItFound ==
    /\ \A s \in Sweepers : sweeps[s].deleted \subseteq sweeps[s].found
    /\ Written =>
          /\ \A s \in saver.enumerated : SavedFile \notin sweeps[s].deleted
          /\ SavedFile \notin files
                => \E s \in Sweepers \ saver.enumerated :
                      SavedFile \in sweeps[s].deleted
    /\ \A f \in files : f.dir \in dirs

\* A sweep listed the files of a bucket, save_file then wrote a file into
\* that bucket, and the sweep has deleted what it listed, tried the bucket
\* and returned: the new file and the bucket are there.
C19_Witness ==
    /\ Written
    /\ \E s \in saver.enumerated :
          /\ sweeps[s].pc = "done"
          /\ ~sweeps[s].raised
          /\ \E f \in sweeps[s].deleted : f.dir = saver.dir
          /\ saver.dir \notin sweeps[s].removed
    /\ SavedFile \in files
    /\ saver.dir \in dirs

\* C20: save_file does not fail for what a sweep does.
C20_SaveNeverFails ==
    saver.pc # "failed"

-----------------------------------------------------------------------------
(* Request threads inside RateLimiter.is_allowed.  The class takes no      *)
(* lock, so the calls of two threads interleave between any two of its     *)
(* statements.  A step here is a whole statement, or a loop with the test  *)
(* that follows it: every interleaving of these steps is one of the code.  *)
(* Here the two maps hold references, as in the code: minute_requests[c]   *)
(* and hour_requests[c] are indices into deques, and a deque that has been *)
(* deleted from its map lives on for the threads that still hold it.       *)

\* At most this many is_allowed calls.
MaxThreadCalls == 3

\* The threads serve requests of one fingerprint.
ThreadRequests == { req \in Requests : req.user_agent = "curl/8.0" }

\* self.minute_requests[client_id] on a defaultdict(deque): the deque of the
\* key, a new empty one put in the map when the key is missing.
FetchDeque(map, heap, c) ==
    IF c \in DOMAIN map
    THEN [map |-> map, heap |-> heap, ref |-> map[c]]
    ELSE [map |-> Put(map, c, Len(heap) + 1), heap |-> Append(heap, << >>),
          ref |-> Len(heap) + 1]

\* The trimming loop on the deque ref.
Trimmed(heap, ref, cutoff) == [heap EXCEPT ![ref] = PopOld(@, cutoff)]

\* del map[c]
Without(map, c) == [k \in DOMAIN map \ {c} |-> map[k]]

\* The calls begun so far.
ThreadCalls == Len(history) + Cardinality({ h \in Handlers : handlers[h].pc # "idle" })

\* What is_allowed hands back, or the exception that leaves it.
Returned(h, allowed, reason, recorded) ==
    [id |-> Len(history) + 1, client |-> handlers[h].client_id,
     at |-> handlers[h].current_time, allowed |-> allowed, reason |-> reason,
     recorded |-> recorded]

\* Lines 78-79: the client id and current_time.
EnterIsAllowed(h) ==
    /\ handlers[h].pc = "idle"
    /\ ThreadCalls < MaxThreadCalls
    /\ \E req \in ThreadRequests :
          handlers' = [handlers EXCEPT ![h] =
              [IdleHandler EXCEPT !.pc = "cleanup",
                                  !.client_id = _get_client_id(req),
                                  !.current_time = now]]
    /\ UNCHANGED <<now, requests_per_minute, requests_per_hour, minute_requests,
                   hour_requests, last_cleanup, history, route_log, deques>>
    /\ UNCHANGED <<vfVars, fsVars, thVars, mwVars>>

\* Lines 48-58: _cleanup_old_requests reads the clock, returns when the
\* interval has not passed, and else lists the keys of minute_requests.
CleanupCheck(h) ==
    /\ handlers[h].pc = "cleanup"
    /\ handlers' = [handlers EXCEPT ![h] =
          IF now - last_cleanup < cleanup_interval
          THEN [@ EXCEPT !.pc = "minute"]
          ELSE [@ EXCEPT !.pc = "sweep_minute", !.sweep_time = now,
                         !.keys = DOMAIN minute_requests]]
    /\ UNCHANGED <<now, requests_per_minute, requests_per_hour, minute_requests,
                   hour_requests, last_cleanup, history, route_log, deques>>
    /\ UNCHANGED <<vfVars, fsVars, thVars, mwVars>>

\* Lines 59-62 and 66: the next client of the first loop, its deque fetched
\* and trimmed and "if not requests" decided; after the last one the keys of
\* hour_requests are listed.
SweepMinuteTrim(h) ==
    /\ handlers[h].pc = "sweep_minute"
    /\ IF handlers[h].keys = {}
       THEN /\ handlers' = [handlers EXCEPT ![h].pc = "sweep_hour",
                                            ![h].keys = DOMAIN hour_requests]
            /\ UNCHANGED <<minute_requests, deques>>
       ELSE \E k \in handlers[h].keys :
              LET f == FetchDeque(minute_requests, deques, k)
                  heap == Trimmed(f.heap, f.ref, handlers[h].sweep_time - MinuteWindow)
              IN  /\ minute_requests' = f.map
                  /\ deques' = heap
                  /\ handlers' = [handlers EXCEPT
                        ![h].keys = @ \ {k}, ![h].key = k, ![h].requests = f.ref,
                        ![h].pc = IF heap[f.ref] = << >> THEN "del_minute"
                                  ELSE "sweep_minute"]
    /\ UNCHANGED <<now, requests_per_minute, requests_per_hour, hour_requests,
                   last_cleanup, history, route_log>>
    /\ UNCHANGED <<vfVars, fsVars, thVars, mwVars>>

\* Line 63: del self.minute_requests[client_id]; a KeyError when the key is
\* no longer there, which leaves is_allowed.
SweepMinuteDel(h) ==
    /\ handlers[h].pc = "del_minute"
    /\ IF handlers[h].key \in DOMAIN minute_requests
       THEN /\ minute_requests' = Without(minute_requests, handlers[h].key)
            /\ handlers' = [handlers EXCEPT ![h].pc = "sweep_minute"]
            /\ UNCHANGED history
       ELSE /\ history' = Append(history, Returned(h, FALSE, "KeyError", FALSE))
            /\ handlers' = [handlers EXCEPT ![h] = IdleHandler]
            /\ UNCHANGED minute_requests
    /\ UNCHANGED <<now, requests_per_minute, requests_per_hour, hour_requests,
                   last_cleanup, route_log, deques>>
    /\ UNCHANGED <<vfVars, fsVars, thVars, mwVars>>

\* Lines 67-70 and 73: the same for the second loop; after the last client
\* last_cleanup is set and is_allowed goes on.
SweepHourTrim(h) ==
    /\ handlers[h].pc = "sweep_hour"
    /\ IF handlers[h].keys = {}
       THEN /\ last_cleanup' = handlers[h].sweep_time
            /\ handlers' = [handlers EXCEPT ![h].pc = "minute"]
            /\ UNCHANGED <<hour_requests, deques>>
       ELSE \E k \in handlers[h].keys :
              LET f == FetchDeque(hour_requests, deques, k)
                  heap == Trimmed(f.heap, f.ref, handlers[h].sweep_time - HourWindow)
              IN  /\ hour_requests' = f.map
                  /\ deques' = heap
                  /\ handlers' = [handlers EXCEPT
                        ![h].keys = @ \ {k}, ![h].key = k, ![h].requests = f.ref,
                        ![h].pc = IF heap[f.ref] = << >> THEN "del_hour"
                                  ELSE "sweep_hour"]
                  /\ UNCHANGED last_cleanup
    /\ UNCHANGED <<now, requests_per_minute, requests_per_hour, minute_requests,
                   history, route_log>>
    /\ UNCHANGED <<vfVars, fsVars, thVars, mwVars>>

\* Line 71: del self.hour_requests[client_id]
SweepHourDel(h) ==
    /\ handlers[h].pc = "del_hour"
    /\ IF handlers[h].key \in DOMAIN hour_requests
       THEN /\ hour_requests' = Without(hour_requests, handlers[h].key)
            /\ handlers' = [handlers EXCEPT ![h].pc = "sweep_hour"]
            /\ UNCHANGED history
       ELSE /\ history' = Append(history, Returned(h, FALSE, "KeyError", FALSE))
            /\ handlers' = [handlers EXCEPT ![h] = IdleHandler]
            /\ UNCHANGED hour_requests
    /\ UNCHANGED <<now, requests_per_minute, requests_per_hour, minute_requests,
                   last_cleanup, route_log, deques>>
    /\ UNCHANGED <<vfVars, fsVars, thVars, mwVars>>

\* Lines 85-94: the minute deque fetched and trimmed, and the minute test.
CheckMinute(h) ==
    /\ handlers[h].pc = "minute"
    /\ LET f == FetchDeque(minute_requests, deques, handlers[h].client_id)
           heap == Trimmed(f.heap, f.ref, handlers[h].current_time - MinuteWindow)
       IN  /\ minute_requests' = f.map
           /\ deques' = heap
           /\ IF MinuteLimitReached(heap[f.ref], requests_per_minute)
              THEN /\ history' = Append(history, Returned(h, FALSE, PER_MINUTE, FALSE))
                   /\ handlers' = [handlers EXCEPT ![h] = IdleHandler]
              ELSE /\ handlers' = [handlers EXCEPT ![h].pc = "hour",
                                                   ![h].minute_requests = f.ref]
                   /\ UNCHANGED history
    /\ UNCHANGED <<now, requests_per_minute, requests_per_hour, hour_requests,
                   last_cleanup, route_log>>
    /\ UNCHANGED <<vfVars, fsVars, thVars, mwVars>>

\* Lines 97-106: the hour deque fetched and trimmed, and the hour test.
CheckHour(h) ==
    /\ handlers[h].pc = "hour"
    /\ LET f == FetchDeque(hour_requests, deques, handlers[h].client_id)
           heap == Trimmed(f.heap, f.ref, handlers[h].current_time - HourWindow)
       IN  /\ hour_requests' = f.map
           /\ deques' = heap
           /\ IF HourLimitReached(heap[f.ref], requests_per_hour)
              THEN /\ history' = Append(history, Returned(h, FALSE, PER_HOUR, FALSE))
                   /\ handlers' = [handlers EXCEPT ![h] = IdleHandler]
              ELSE /\ handlers' = [handlers EXCEPT ![h].pc = "record",
                                                   ![h].hour_requests = f.ref]
                   /\ UNCHANGED history
    /\ UNCHANGED <<now, requests_per_minute, requests_per_hour, minute_requests,
                   last_cleanup, route_log>>
    /\ UNCHANGED <<vfVars, fsVars, thVars, mwVars>>

\* The deque the map holds for client c is the deque ref.
InMap(map, c, ref) == c \in DOMAIN map /\ map[c] = ref

\* Lines 109-112: current_time appended to the two deques the thread holds,
\* and True returned.  The answer notes whether those are the deques of the
\* two maps.
Record(h) ==
    /\ handlers[h].pc = "record"
    /\ deques' = [deques EXCEPT
          ![handlers[h].minute_requests] = Append(@, handlers[h].current_time),
          ![handlers[h].hour_requests] = Append(@, handlers[h].current_time)]
    /\ history' = Append(history, Returned(h, TRUE, NONE,
          /\ InMap(minute_requests, handlers[h].client_id, handlers[h].minute_requests)
          /\ InMap(hour_requests, handlers[h].client_id, handlers[h].hour_requests)))
    /\ handlers' = [handlers EXCEPT ![h] = IdleHandler]
    /\ UNCHANGED <<now, requests_per_minute, requests_per_hour, minute_requests,
                   hour_requests, last_cleanup, route_log>>
    /\ UNCHANGED <<vfVars, fsVars, thVars, mwVars>>

IsAllowedStep(h) ==
    \/ EnterIsAllowed(h)
    \/ CleanupCheck(h)
    \/ SweepMinuteTrim(h)
    \/ SweepMinuteDel(h)
    \/ SweepHourTrim(h)
    \/ SweepHourDel(h)
    \/ CheckMinute(h)
    \/ CheckHour(h)
    \/ Record(h)

InitHandlers ==
    /\ RateLimiterInit
    /\ ValidateIdle /\ StoreIdle /\ ThreadsIdle /\ MiddlewareIdle /\ HandlersIdle

NextHandlers == Advance \/ \E h \in Handlers : IsAllowedStep(h)

SpecHandlers == InitHandlers /\ [][NextHandlers]_vars

-----------------------------------------------------------------------------
(* Claims about the request threads.                                       *)

\* The deque a map holds for client c.
Window(map, c) == deques[map[c]]

\* C21: whatever the interleaving of the threads, the minute window of a
\* fingerprint never holds more timestamps than the per-minute limit, its
\* hour window never more than the per-hour limit, and the timestamp of
\* every admitted request was appended to the windows the maps hold.
C21_WindowsWithinLimits ==
    /\ \A c \in DOMAIN minute_requests :
          Len(Window(minute_requests, c)) <= requests_per_minute
    /\ \A c \in DOMAIN hour_requests :
          Len(Window(hour_requests, c)) <= requests_per_hour
    /\ \A i \in DOMAIN history : history[i].allowed => history[i].recorded

\* C22: when a sweep interleaves with an is_allowed call of another thread
\* or with another sweep, no admitted request appends its timestamp to a
\* deque the sweep has taken out of its map, and no sweep fails on an entry
\* that is already deleted.
C22_SweepLosesNothing ==
    \A i \in DOMAIN history :
        /\ history[i].reason # "KeyError"
        /\ history[i].allowed => history[i].recorded

-----------------------------------------------------------------------------
(* RateLimiter.get_stats                                                   *)

RECURSIVE SumLen(_)
\* sum(len(requests) for requests in map.values())
SumLen(map) ==
    IF DOMAIN map = {} THEN 0
    ELSE LET c == CHOOSE k \in DOMAIN map : TRUE
         IN  Len(map[c]) + SumLen([k \in DOMAIN map \ {c} |-> map[k]])

\* What get_stats counts as the clients: the keys of minute_requests.
ActiveClientsEitherMap(mreq, hreq) == DOMAIN mreq \cup DOMAIN hreq
ActiveClients(mreq, hreq) == DOMAIN mreq

\* RateLimiter.get_stats
get_stats(mreq, hreq, rpm, rph) ==
    [active_clients |-> Cardinality(ActiveClients(mreq, hreq)),
     total_minute_requests |-> SumLen(mreq),
     total_hour_requests |-> SumLen(hreq),
     requests_per_minute_limit |-> rpm,
     requests_per_hour_limit |-> rph]

\* A call of rate_limiter.get_stats(): the snapshot, with the time of the
\* call and the maps as they were before and after it.
GetStats ==
    /\ UNCHANGED <<rate_limiter, config, served>>
    /\ UNCHANGED <<rlVars, vfVars, fsVars, thVars, rtVars>>
    /\ stats' = [taken |-> TRUE, at |-> now,
                 snapshot |-> get_stats(minute_requests, hour_requests,
                                        requests_per_minute, requests_per_hour),
                 minute_before |-> minute_requests, hour_before |-> hour_requests,
                 minute_after |-> minute_requests', hour_after |-> hour_requests']

NextStats == Advance \/ IsAllowed \/ GetStats

SpecStats == InitRL /\ [][NextStats]_vars

-----------------------------------------------------------------------------
(* Claims about the sweep of the client windows and about get_stats.       *)

\* The timestamps of a window that the cutoff rule keeps at time t.
Live(window, t, w) == PopOld(window, t - w)

\* C23: a fingerprint that still has hits in its hour window is an active
\* fingerprint: the periodic sweep removes a fingerprint only when both of
\* its windows are empty.
C23_HourHitsKeepFingerprintActive ==
    \A c \in DOMAIN hour_requests :
        Live(hour_requests[c], now, HourWindow) # << >>
            => c \in ActiveClients(minute_requests, hour_requests)

-----------------------------------------------------------------------------
(* init_rate_limiter and the rate_limit_required decorator.                *)

\* The configurations an app may carry: RATE_LIMIT_ENABLED and the two
\* limits (src/config.py, lines 28-30, 65-66, 89-90 and 135).
Configs ==
    { [RATE_LIMIT_ENABLED |-> enabled, RATE_LIMIT_PER_MINUTE |-> rpm,
       RATE_LIMIT_PER_HOUR |-> MaxPerHour] :
          enabled \in BOOLEAN, rpm \in 1..MaxPerMinute }

\* At most this many requests to the wrapped view function.
MaxServed == 3

\* No app has been given to init_rate_limiter yet.
NoConfig == << >>

\* init_rate_limiter(app): with RATE_LIMIT_ENABLED a new RateLimiter becomes
\* the global; without it the else branch logs and the global stays as it is.
init_rate_limiter ==
    \E cfg \in Configs :
        /\ config' = cfg
        /\ IF cfg.RATE_LIMIT_ENABLED
           THEN /\ rate_limiter' = "RateLimiter"
                /\ requests_per_minute' = cfg.RATE_LIMIT_PER_MINUTE
                /\ requests_per_hour' = cfg.RATE_LIMIT_PER_HOUR
                /\ minute_requests' = << >>
                /\ hour_requests' = << >>
                /\ last_cleanup' = now
           ELSE UNCHANGED <<rate_limiter, requests_per_minute, requests_per_hour,
                            minute_requests, hour_requests, last_cleanup>>
        /\ UNCHANGED <<now, history, route_log, served, stats>>
        /\ UNCHANGED <<vfVars, fsVars, thVars, rtVars>>

\* A request to a view function wrapped by rate_limit_required: with a
\* global rate limiter is_allowed is asked and a denial answered with 429;
\* otherwise, and when admitted, the view function f answers.
decorated_function ==
    \E req \in Requests :
        LET r == is_allowed(minute_requests, hour_requests, last_cleanup,
                            requests_per_minute, requests_per_hour,
                            _get_client_id(req), now)
            limited == rate_limiter # NONE
            denied == limited /\ ~r.allowed
        IN  /\ Len(served) < MaxServed
            /\ IF limited
               THEN /\ minute_requests' = r.minute
                    /\ hour_requests' = r.hour
                    /\ last_cleanup' = r.last_cleanup
               ELSE UNCHANGED <<minute_requests, hour_requests, last_cleanup>>
            /\ served' = Append(served,
                  [client |-> _get_client_id(req), at |-> now,
                   enabled |-> config # NoConfig /\ config.RATE_LIMIT_ENABLED,
                   configured |-> config # NoConfig,
                   status |-> IF denied THEN 429 ELSE 200,
                   message |-> IF denied THEN r.reason ELSE NONE,
                   handled |-> ~denied,
                   windows_touched |-> limited])
            /\ UNCHANGED <<now, requests_per_minute, requests_per_hour, history,
                           route_log, rate_limiter, config, stats>>
            /\ UNCHANGED <<vfVars, fsVars, thVars, rtVars>>

\* The module just imported: rate_limiter = None (line 125).
InitMiddleware ==
    /\ now = 0
    /\ requests_per_minute = 1
    /\ requests_per_hour = 1
    /\ minute_requests = << >>
    /\ hour_requests = << >>
    /\ last_cleanup = 0
    /\ history = << >>
    /\ route_log = << >>
    /\ rate_limiter = NONE
    /\ config = NoConfig
    /\ served = << >>
    /\ stats = NoStats
    /\ ValidateIdle /\ StoreIdle /\ ThreadsIdle /\ HandlersIdle

NextMiddleware == Advance \/ init_rate_limiter \/ decorated_function

SpecMiddleware == InitMiddleware /\ [][NextMiddleware]_vars

\* C24: a request that arrives while the configuration has rate limiting
\* disabled reaches the wrapped view function, is not answered with a
\* rate-limit denial, and no client window is read or created for it.
C24_DisabledAlwaysAdmits ==
    \A i \in DOMAIN served :
        (served[i].configured /\ ~served[i].enabled)
            => /\ served[i].handled
               /\ served[i].status # 429
               /\ ~served[i].windows_touched

\* The timestamps a map holds, each with its client and its place.
Hits(map) == UNION { { <<c, i>> : i \in DOMAIN map[c] } : c \in DOMAIN map }

-----------------------------------------------------------------------------
(* FileManager.list_files and FileManager.get_storage_stats.  A file here  *)
(* also has created, its st_ctime in ticks.                                *)

Name_cleanup_log == <<"c", "l", "e", "a", "n", "u", "p", "_", "l", "o", "g", ".", "t", "x", "t">>

\* self.base_directory.iterdir(): the directories, and the cleanup log once
\* something has been written to it.
base_iterdir(ds, log) ==
    { [name |-> d, is_dir |-> TRUE] : d \in ds }
    \cup (IF log = << >> THEN {} ELSE { [name |-> Name_cleanup_log, is_dir |-> FALSE] })

\* "if date_dir.is_dir() and date_dir.name != '__pycache__'"
VisitedDirectories(ds, log) ==
    { e.name : e \in { x \in base_iterdir(ds, log) : x.is_dir /\ x.name # PycacheName } }

\* No limit given to list_files.
NoLimit == {}

\* The files list_files appends: those of the date's directory when a date
\* is given and the directory exists, else those of every directory visited;
\* in both cases only the names validate_filename accepts.
files_listed(ds, fs, log, date) ==
    IF date # NoDate
    THEN LET dir == strftime_date(CHOOSE d \in date : TRUE)
         IN  IF dir \in ds
             THEN { f \in fs : f.dir = dir /\ validate_filename(f.name) }
             ELSE {}
    ELSE { f \in fs : /\ f.dir \in VisitedDirectories(ds, log)
                      /\ validate_filename(f.name) }

\* The dictionary list_files keeps of a file.
list_record(f) ==
    [filename |-> f.name,
     filepath |-> JoinPath(base_directory \o <<f.dir>>, f.name),
     size |-> f.size,
     created |-> f.created,
     date |-> f.dir]

\* files.sort(key=lambda x: x['created'], reverse=True): the orders the sort
\* may leave the records in; records created at the same time stay in the
\* order iterdir gave them, which is any.
NewestFirst(seq) ==
    \A i, j \in DOMAIN seq : i < j => seq[i].created >= seq[j].created

SortedOrders(records) ==
    { seq \in [1..Cardinality(records) -> records] :
        /\ \A r \in records : \E i \in DOMAIN seq : seq[i] = r
        /\ NewestFirst(seq) }

\* "if limit: files = files[:limit]", for a limit that is not negative.
Truncated(seq, limit) ==
    IF limit = NoLimit \/ limit = {0} THEN seq
    ELSE LET n == CHOOSE k \in limit : TRUE
         IN  SubSeq(seq, 1, IF n < Len(seq) THEN n ELSE Len(seq))

\* What one bucket adds to the statistics: every entry that is a file.
dir_files(fs, d) == { f \in fs : f.dir = d }

\* FileManager.get_storage_stats; directories is kept as a set.
get_storage_stats(ds, fs, log) ==
    LET visited == VisitedDirectories(ds, log)
        counted == { f \in fs : f.dir \in visited }
    IN  [total_files |-> Cardinality(counted),
         total_size |-> SumSizes(counted),
         total_size_mb |-> size_mb(SumSizes(counted)),
         directories |->
             { [date |-> d, files |-> Cardinality(dir_files(fs, d)),
                size |-> SumSizes(dir_files(fs, d))] :
                   d \in { x \in visited : dir_files(fs, x) # {} } }]

\* What get_storage_stats returns when a call to the operating system fails.
storage_stats_error ==
    [total_files |-> 0, total_size |-> 0, total_size_mb |-> 0,
     directories |-> {}, error |-> TRUE]

\* The dates and limits the calls are made with.
MaxLimit == 2
ListDates == { NoDate, {0 - MaxAgeDays}, {0 - 1}, {0} }
ListLimits == { NoLimit } \cup { {n} : n \in 0..MaxLimit }

\* The store the listing starts from: at most MaxListed files, in an old
\* day bucket, in today's and in a directory that is not a day bucket; one of
\* them has a name validate_filename refuses.
MaxListed == 3
MaxCreated == 1
ListedFiles ==
    { [dir |-> e.dir, name |-> e.name, size |-> e.size, created |-> t] :
        e \in { [dir |-> strftime_date(0 - MaxAgeDays), name |-> Name_x_exe, size |-> 1],
                [dir |-> strftime_date(0 - MaxAgeDays), size |-> MaxSize,
                 name |-> create_filename("a cat", Ext_png, (0 - MaxAgeDays) * TicksPerDay)],
                [dir |-> strftime_date(0), size |-> 1,
                 name |-> create_filename("a cat", Ext_png, 0)],
                [dir |-> ThumbsName, name |-> Name_a_jpg, size |-> MaxSize] },
        t \in 0..MaxCreated }

StoreToList ==
    /\ clock = 0
    /\ max_age_days = 1
    /\ \E fs \in SUBSET ListedFiles :
          /\ Cardinality(fs) <= MaxListed
          /\ \A f, g \in fs : (f.dir = g.dir /\ f.name = g.name) => f = g
          /\ files = fs
          /\ dirs = { f.dir : f \in fs }
    /\ cleanup_log = << >>
    /\ saved = {}
    /\ calls = 0
    /\ fs_last = [op |-> "none"]

\* One call of file_manager.list_files(date, limit).
ListFiles ==
    \E date \in ListDates, limit \in ListLimits, os_error \in BOOLEAN :
        \E sorted \in SortedOrders({ list_record(f) :
                                      f \in files_listed(dirs, files, cleanup_log, date) }) :
            /\ calls < MaxCalls
            /\ calls' = calls + 1
            /\ fs_last' = [op |-> "list_files", date |-> date, limit |-> limit,
                           returned |-> IF os_error THEN << >>
                                        ELSE Truncated(sorted, limit)]
            /\ UNCHANGED <<clock, max_age_days, dirs, files, cleanup_log, saved>>
            /\ UNCHANGED <<rlVars, vfVars, thVars, mwVars, rtVars>>

\* One call of file_manager.get_storage_stats().
GetStorageStats ==
    \E os_error \in BOOLEAN :
        /\ calls < MaxCalls
        /\ calls' = calls + 1
        /\ fs_last' = [op |-> "get_storage_stats",
                       results |-> IF os_error THEN storage_stats_error
                                   ELSE get_storage_stats(dirs, files, cleanup_log)]
        /\ UNCHANGED <<clock, max_age_days, dirs, files, cleanup_log, saved>>
        /\ UNCHANGED <<rlVars, vfVars, thVars, mwVars, rtVars>>

InitList == RateLimiterIdle /\ ValidateIdle /\ StoreToList /\ ThreadsIdle /\ MiddlewareIdle /\ HandlersIdle

NextList == ListFiles \/ GetStorageStats \/ CleanupOldFiles

SpecList == InitList /\ [][NextList]_vars

-----------------------------------------------------------------------------
(* Claims about the enumerations of the store.                             *)

\* The files of the store whose names validate_filename accepts.
ValidFiles == { f \in files : validate_filename(f.name) }

\* C26: no enumeration shows a file whose name fails validate_filename:
\* list_files returns none, get_storage_stats counts none in total_files and
\* total_size, and cleanup_old_files reports none as a candidate.
C26_InvalidNamesInvisible ==
    /\ fs_last.op = "list_files"
          => \A i \in DOMAIN fs_last.returned :
                validate_filename(fs_last.returned[i].filename)
    /\ fs_last.op = "get_storage_stats"
          => /\ fs_last.results.total_files <= Cardinality(ValidFiles)
             /\ fs_last.results.total_size <= SumSizes(ValidFiles)
    /\ (fs_last.op = "cleanup_old_files" /\ ~Failed(fs_last.results))
          => \A f \in fs_last.found : validate_filename(f.name)

RECURSIVE SumField(_, _)
\* The sum of one field over the per-date breakdown.
SumField(entries, field) ==
    IF entries = {} THEN 0
    ELSE LET e == CHOOSE x \in entries : TRUE
         IN  e[field] + SumField(entries \ {e}, field)

\* C27: get_storage_stats has one entry for a day bucket and none for
\* anything else under the base directory, and total_files and total_size
\* are the sums of the entries' files and size.
C27_StatsOverDayBucketsOnly ==
    fs_last.op = "get_storage_stats" =>
        LET entries == fs_last.results.directories
        IN  /\ \A e \in entries : strptime_date(e.date).ok
            /\ \A e, g \in entries : e.date = g.date => e = g
            /\ fs_last.results.total_files = SumField(entries, "files")
            /\ fs_last.results.total_size = SumField(entries, "size")

\* C28: list_files returns its records newest first, only records of the
\* date's bucket when a date is given, and no more than limit records when a
\* limit is given, 0 included.
C28_ListNewestFirstWithinLimit ==
    fs_last.op = "list_files" =>
        /\ NewestFirst(fs_last.returned)
        /\ fs_last.date # NoDate
              => \A i \in DOMAIN fs_last.returned :
                    fs_last.returned[i].date = strftime_date(CHOOSE d \in fs_last.date : TRUE)
        /\ fs_last.limit # NoLimit
              => Len(fs_last.returned) <= (CHOOSE n \in fs_last.limit : TRUE)

-----------------------------------------------------------------------------
(* Claims about what an is_allowed call leaves in the windows.             *)

\* a is what is left of b after some of its oldest entries are dropped.
IsSuffix(a, b) ==
    \E k \in 0..Len(b) : a = SubSeq(b, k + 1, Len(b))

\* a is what is left of b, with t appended.
IsSuffixWith(a, b, t) ==
    a # << >> /\ a[Len(a)] = t /\ IsSuffix(SubSeq(a, 1, Len(a) - 1), b)

\* C29: an admitted request appends its timestamp, the same value, to the
\* minute window and to the hour window of its client; a denied request
\* appends nothing to either window.
C29_RecordedIffAdmitted ==
    [][ Len(history') > Len(history) =>
          LET e == history'[Len(history')]
              old_minute == GetOrCreate(minute_requests, e.client)
              old_hour == GetOrCreate(hour_requests, e.client)
              new_minute == GetOrCreate(minute_requests', e.client)
              new_hour == GetOrCreate(hour_requests', e.client)
          IN  IF e.allowed
              THEN /\ IsSuffixWith(new_minute, old_minute, e.at)
                   /\ IsSuffixWith(new_hour, old_hour, e.at)
              ELSE /\ IsSuffix(new_minute, old_minute)
                   /\ IsSuffix(new_hour, old_hour) ]_vars

\* A client has been admitted, denied by the minute limit and denied by the
\* hour limit, and holds a timestamp in both of its windows.
C29_Witness ==
    \E i, j, k \in DOMAIN history :
        /\ history[i].allowed
        /\ history[j].reason = PER_MINUTE
        /\ history[k].reason = PER_HOUR
        /\ history[j].client = history[i].client
        /\ history[k].client = history[i].client
        /\ history[i].client \in DOMAIN minute_requests
        /\ history[i].client \in DOMAIN hour_requests

\* The timestamps of a map that are no older than w seconds at time t.
LiveHits(map, t, w) == { x \in Hits(map) : map[x[1]][x[2]] >= t - w }

\* C30: what is counted when the windows are read holds no stale timestamp:
\* the minute window an admission decision counts holds the client's
\* requests admitted in the last 60 seconds, and the totals of a get_stats
\* snapshot count the timestamps of the last 60 and the last 3600 seconds.
C30_StaleTimestampsNotCounted ==
    /\ \A i \in DOMAIN history :
          history[i].minute_len = AdmittedBefore(i, MinuteWindow)
    /\ stats.taken =>
          /\ stats.snapshot.total_minute_requests
                = Cardinality(LiveHits(stats.minute_before, stats.at, MinuteWindow))
          /\ stats.snapshot.total_hour_requests
                = Cardinality(LiveHits(stats.hour_before, stats.at, HourWindow))

-----------------------------------------------------------------------------
(* The interval between two passes of _cleanup_old_requests.               *)

\* The instants at which the clock is read here: around one and around two
\* cleanup intervals after the construction.
PassTimes == {0, 299, 300, 599, 600}

AdvancePasses ==
    /\ \E t \in PassTimes : t > now /\ now' = t
    /\ UNCHANGED <<requests_per_minute, requests_per_hour, minute_requests,
                   hour_requests, last_cleanup, history, route_log>>
    /\ UNCHANGED <<vfVars, fsVars, thVars, mwVars, rtVars>>

NextPasses == AdvancePasses \/ IsAllowed

SpecPasses == InitRL /\ [][NextPasses]_vars

\* The time of the last pass before call i, the construction (time 0) when
\* there was none.
PassBefore(h, i) ==
    LET js == { j \in 1..(i - 1) : h[j].swept }
    IN  IF js = {} THEN 0 ELSE h[CHOOSE j \in js : \A k \in js : k <= j].at

\* C31: a call makes a full pass only when 300 seconds or more have gone
\* by since the last pass (or the construction), so two passes are at least
\* 300 seconds apart; a call that comes earlier makes no pass and leaves the
\* windows of every other fingerprint as they were.
C31_PassesAnIntervalApart ==
    [][ Len(history') > Len(history) =>
          LET i == Len(history')
              e == history'[i]
          IN  /\ e.swept => e.at - PassBefore(history', i) >= cleanup_interval
              /\ e.at - PassBefore(history', i) < cleanup_interval
                    => /\ ~e.swept
                       /\ \A c \in (DOMAIN minute_requests \cup DOMAIN minute_requests')
                                    \ {e.client} :
                             /\ c \in DOMAIN minute_requests
                             /\ c \in DOMAIN minute_requests'
                             /\ minute_requests'[c] = minute_requests[c]
                       /\ \A c \in (DOMAIN hour_requests \cup DOMAIN hour_requests')
                                    \ {e.client} :
                             /\ c \in DOMAIN hour_requests
                             /\ c \in DOMAIN hour_requests'
                             /\ hour_requests'[c] = hour_requests[c] ]_vars

\* Two passes 300 seconds apart, and between them a call of one client that
\* makes no pass while another client has a stale timestamp in its window.
C31_Witness ==
    \E i, j, k \in DOMAIN history :
        /\ i < j /\ j < k
        /\ history[i].swept /\ history[i].at = 300
        /\ ~history[j].swept /\ history[j].at = 599
        /\ history[k].swept /\ history[k].at = 600
        /\ \E m \in 1..(i - 1) :
              /\ history[m].allowed
              /\ history[m].client # history[j].client

-----------------------------------------------------------------------------
(* Claims about a sweep in which a deletion fails.                         *)

\* The last call was a real sweep in which the unlink of a file raised.
DeletionFailed == LastIsCleanup /\ ~fs_last.dry_run /\ fs_last.unlink_fails # {}

\* C32: when the deletion of a file fails in a real sweep, the report is a
\* normal one, every other file found is deleted, the file that failed stays
\* with its directory and is counted neither in files_deleted nor in
\* size_freed_bytes, and the sweep writes its log line (when the log itself
\* can be written).
C32_DeletionFailureDoesNotAbort ==
    DeletionFailed =>
        LET others == fs_last.found \ fs_last.unlink_fails
        IN  /\ ~Failed(fs_last.results)
            /\ fs_last.results.files_found = Cardinality(fs_last.found)
            /\ fs_last.deleted = others
            /\ others \cap fs_last.after.files = {}
            /\ fs_last.unlink_fails \subseteq fs_last.after.files
            /\ \A f \in fs_last.unlink_fails : f.dir \in fs_last.after.dirs
            /\ fs_last.results.files_deleted = Cardinality(others)
            /\ fs_last.results.size_freed_bytes = SumSizes(others)
            /\ ~fs_last.log_fails => fs_last.logged = 1

\* Two files were found, the deletion of one failed, the other was deleted
\* and the sweep logged.
C32_Witness ==
    /\ DeletionFailed
    /\ Cardinality(fs_last.found) = 2
    /\ Cardinality(fs_last.unlink_fails) = 1
    /\ Cardinality(fs_last.deleted) = 1
    /\ fs_last.logged = 1

-----------------------------------------------------------------------------
(* The phases of one cleanup_old_files call, a step at a time, with no     *)
(* other thread in the store.                                              *)

\* cleanup_old_files(dry_run=True) begins: the first loop, as ListOldFiles.
ListOldFilesDryRun(s) ==
    /\ AtStart(s)
    /\ sweeps' = [sweeps EXCEPT ![s].pc = "stat",
                                ![s].at = clock,
                                ![s].dry_run = TRUE,
                                ![s].listed =
                                    files_to_delete(dirs, files, clock, max_age_days)]
    /\ UNCHANGED <<fsVars, saver>>
    /\ UNCHANGED <<rlVars, vfVars, mwVars, rtVars>>

\* The call has returned; the thread may make another.
SweepReturns(s) ==
    /\ sweeps[s].pc = "done"
    /\ calls + 1 < MaxCalls
    /\ calls' = calls + 1
    /\ sweeps' = [sweeps EXCEPT ![s] = IdleSweep]
    /\ UNCHANGED <<clock, max_age_days, dirs, files, cleanup_log, saved, fs_last>>
    /\ UNCHANGED saver
    /\ UNCHANGED <<rlVars, vfVars, mwVars, rtVars>>

InitPhases == RateLimiterIdle /\ ValidateIdle /\ StoreWithFiles /\ ThreadsIdle /\ MiddlewareIdle /\ HandlersIdle

NextPhases ==
    \/ ListOldFiles("manual")
    \/ ListOldFilesDryRun("manual")
    \/ StatListed("manual")
    \/ DeleteOne("manual")
    \/ ListDirectories("manual")
    \/ PruneOne("manual")
    \/ LogResults("manual")
    \/ SweepReturns("manual")

SpecPhases == InitPhases /\ [][NextPhases]_vars

\* The sweep of the thread that runs alone.
TheSweep == sweeps["manual"]

\* C33: a file is deleted only in the delete phase, after the enumeration;
\* a directory is removed only in the pruning phase, when no deletion is
\* left to try; the log line is written last, when nothing is left to delete
\* or to prune;
\* and a dry run never enters the delete or the pruning phase and removes
\* nothing.
C33_PhasesInOrder ==
    [][ /\ files' # files
           => /\ TheSweep.pc = "delete"
              /\ TheSweep.found = TheSweep.listed
              /\ ~TheSweep.dry_run
        /\ dirs' # dirs
           => /\ TheSweep.pc = "prune"
              /\ TheSweep.todo = {}
              /\ ~TheSweep.dry_run
        /\ cleanup_log' # cleanup_log
           => /\ TheSweep.pc = "log"
              /\ ~TheSweep.dry_run => TheSweep.todo = {}
              /\ TheSweep.prune_todo = {}
              /\ TheSweep'.pc = "done"
        /\ TheSweep'.dry_run
           => /\ TheSweep'.pc \notin {"delete", "prune_list", "prune"}
              /\ files' = files
              /\ dirs' = dirs ]_vars

\* A dry run that found two files has logged, and after it a real sweep has
\* deleted the two files, removed their directory and logged.
C33_Witness ==
    /\ Len(cleanup_log) = 2
    /\ cleanup_log[1].dry_run
    /\ cleanup_log[1].files_found = 2
    /\ ~cleanup_log[2].dry_run
    /\ cleanup_log[2].files_deleted = 2
    /\ TheSweep.pc = "done"
    /\ TheSweep.removed # {}

-----------------------------------------------------------------------------
(* The cleanup log as a text file that others may write to as well.  Here  *)
(* cleanup_log holds the file: whether it is there, and its lines.         *)

MaxLogLines == 3
LastLogTick == 3

\* The line _log_cleanup_results writes at clock reading t for a sweep that
\* found nothing.
RenderedLine(t) ==
    log_line([timestamp |-> t, dry_run |-> FALSE, files_found |-> 0,
              files_deleted |-> 0, size_freed_mb |-> 0])

\* Lines the program does not write: blank ones, ones with no time, one with
\* a time and two separators, one with a time and no line end.
ForeignLines ==
    { <<"\n">>,
      <<" ", "\n">>,
      <<"x", "\n">>,
      <<"x">> \o Text_sep \o <<"y", "\n">>,
      isoformat(1) \o Text_sep \o <<"a">> \o Text_sep \o <<"b", "\n">>,
      <<" ">> \o isoformat(2) }

NoLogFile == [exists |-> FALSE, lines |-> << >>]

\* _log_cleanup_results: open(..., 'a') creates the file and appends a line.
LogCleanupResults ==
    /\ Len(cleanup_log.lines) < MaxLogLines
    /\ cleanup_log' = [exists |-> TRUE,
                       lines |-> Append(cleanup_log.lines, RenderedLine(clock))]
    /\ fs_last' = [op |-> "_log_cleanup_results", at |-> clock]
    /\ UNCHANGED <<clock, max_age_days, dirs, files, saved, calls>>
    /\ UNCHANGED <<rlVars, vfVars, thVars, mwVars, rtVars>>

\* Something else appends a line to the file, or creates it empty.
ForeignWrite ==
    /\ \/ /\ ~cleanup_log.exists
          /\ cleanup_log' = [exists |-> TRUE, lines |-> << >>]
       \/ /\ Len(cleanup_log.lines) < MaxLogLines
          /\ \E line \in ForeignLines :
                cleanup_log' = [exists |-> TRUE,
                                lines |-> Append(cleanup_log.lines, line)]
    /\ fs_last' = [op |-> "foreign"]
    /\ UNCHANGED <<clock, max_age_days, dirs, files, saved, calls>>
    /\ UNCHANGED <<rlVars, vfVars, thVars, mwVars, rtVars>>

\* The log file is removed.
RemoveLog ==
    /\ cleanup_log.exists
    /\ cleanup_log' = NoLogFile
    /\ fs_last' = [op |-> "foreign"]
    /\ UNCHANGED <<clock, max_age_days, dirs, files, saved, calls>>
    /\ UNCHANGED <<rlVars, vfVars, thVars, mwVars, rtVars>>

TickLog ==
    /\ clock < LastLogTick
    /\ clock' = clock + 1
    /\ UNCHANGED <<max_age_days, dirs, files, cleanup_log, saved, calls, fs_last>>
    /\ UNCHANGED <<rlVars, vfVars, thVars, mwVars, rtVars>>

\* schedule_cleanup(force=False) as far as its decision: the last cleanup
\* time it reads and whether it finds the sweep due.
GetLastCleanupTime ==
    LET last_time == last_cleanup_of_file(cleanup_log)
    IN  /\ fs_last' = [op |-> "_get_last_cleanup_time",
                       at |-> clock,
                       last_cleanup |-> last_time,
                       due |-> CleanupDue(FALSE, last_time, clock)]
        /\ UNCHANGED <<clock, max_age_days, dirs, files, cleanup_log, saved, calls>>
        /\ UNCHANGED <<rlVars, vfVars, thVars, mwVars, rtVars>>

InitLog ==
    /\ RateLimiterIdle /\ ValidateIdle /\ ThreadsIdle /\ MiddlewareIdle /\ HandlersIdle
    /\ clock = 0
    /\ max_age_days = 1
    /\ dirs = {}
    /\ files = {}
    /\ cleanup_log = NoLogFile
    /\ saved = {}
    /\ calls = 0
    /\ fs_last = [op |-> "none"]

NextLog ==
    \/ TickLog
    \/ LogCleanupResults
    \/ ForeignWrite
    \/ RemoveLog
    \/ GetLastCleanupTime

SpecLog == InitLog /\ [][NextLog]_vars

\* The timestamp a line starts with, as the claim reads it.
TimestampOf(line) == fromisoformat(SplitFirst(strip(line), Text_sep))

NonEmptyLines(lines) == { i \in 1..Len(lines) : strip(lines[i]) # << >> }

\* The last line of the file that is not blank, when there is one.
LastNonEmptyLine(lines) ==
    lines[CHOOSE i \in NonEmptyLines(lines) : \A j \in NonEmptyLines(lines) : j <= i]

LastIsRead == fs_last.op = "_get_last_cleanup_time"

\* C34: the last cleanup time is the timestamp of the last line
\* that is not blank, and with no such line or an unparsable one there is
\* none and the sweep is due.
C34_LastNonEmptyLineDecides ==
    LastIsRead =>
        /\ fs_last.last_cleanup =
              IF cleanup_log.exists /\ NonEmptyLines(cleanup_log.lines) # {}
              THEN TimestampOf(LastNonEmptyLine(cleanup_log.lines))
              ELSE [ok |-> FALSE, seconds |-> 0]
        /\ ~fs_last.last_cleanup.ok => fs_last.due

\* What the code does: the last cleanup time is the timestamp before the first
\* " - " of the last line of the log, which is the clock reading of the write when
\* _log_cleanup_results wrote the line; with no log, an empty log, a blank
\* last line or a last line without a timestamp there is none and the sweep
\* is due.
C34_LastLineDecides ==
    LastIsRead =>
        LET lines == cleanup_log.lines
            last_line == lines[Len(lines)]
        IN  /\ fs_last.last_cleanup =
                  IF cleanup_log.exists /\ lines # << >> /\ strip(last_line) # << >>
                  THEN TimestampOf(last_line)
                  ELSE [ok |-> FALSE, seconds |-> 0]
            /\ (cleanup_log.exists /\ lines # << >>)
                  => /\ \A t \in 0..LastLogTick :
                          last_line = RenderedLine(t)
                             => fs_last.last_cleanup = [ok |-> TRUE, seconds |-> Seconds(t)]
                     /\ last_line = isoformat(1) \o Text_sep \o <<"a">> \o Text_sep \o <<"b", "\n">>
                          => fs_last.last_cleanup = [ok |-> TRUE, seconds |-> Seconds(1)]
                     /\ last_line \in { <<"x", "\n">>, <<"x">> \o Text_sep \o <<"y", "\n">> }
                          => ~fs_last.last_cleanup.ok
            /\ ~fs_last.last_cleanup.ok => fs_last.due

\* The log ends with a line the program wrote and then a blank line, and the
\* last cleanup time has been read.
C34_Witness ==
    /\ LastIsRead
    /\ Len(cleanup_log.lines) >= 2
    /\ cleanup_log.lines[Len(cleanup_log.lines)] = <<"\n">>
    /\ \E t \in 0..LastLogTick :
          cleanup_log.lines[Len(cleanup_log.lines) - 1] = RenderedLine(t)
    /\ ~fs_last.last_cleanup.ok
    /\ fs_last.due

-----------------------------------------------------------------------------
(* Claims about the windows of the rate limiter, one call at a time.       *)

\* The calls of client c admitted in the w seconds up to time t.
AdmittedIn(c, t, w) ==
    { j \in DOMAIN history :
        /\ history[j].client = c
        /\ history[j].allowed
        /\ history[j].at >= t - w
        /\ history[j].at <= t }

\* C35: at the present time and at the time of every call made so far, no
\* fingerprint has more admitted requests in the 60 seconds up to that time
\* than the per-minute limit, nor more in the 3600 seconds up to it than the
\* per-hour limit.
C35_AdmittedWithinLimits ==
    \A c \in ClientIds :
        \A t \in {now} \cup { history[i].at : i \in DOMAIN history } :
            /\ Cardinality(AdmittedIn(c, t, MinuteWindow)) <= requests_per_minute
            /\ Cardinality(AdmittedIn(c, t, HourWindow)) <= requests_per_hour

\* A fingerprint has used up its hour limit, a later request of it is denied
\* for that, and a pass over the windows has been made.
C35_Witness ==
    /\ \E i \in DOMAIN history :
          /\ history[i].reason = PER_HOUR
          /\ Cardinality(AdmittedIn(history[i].client, history[i].at, HourWindow))
                = requests_per_hour
          /\ requests_per_hour > 1
    /\ \E j \in DOMAIN history : history[j].swept /\ history[j].allowed

\* The timestamps of a window are in the order of the clock.
NonDecreasing(q) == \A i, j \in DOMAIN q : i <= j => q[i] <= q[j]

\* C36: every window is in non-decreasing order, the minute window of a
\* fingerprint is a suffix of its hour window, and no minute window is longer
\* than the per-minute limit and no hour window longer than the per-hour one.
C36_WindowsOrderedNestedBounded ==
    /\ \A c \in DOMAIN minute_requests :
          /\ NonDecreasing(minute_requests[c])
          /\ Len(minute_requests[c]) <= requests_per_minute
    /\ \A c \in DOMAIN hour_requests :
          /\ NonDecreasing(hour_requests[c])
          /\ Len(hour_requests[c]) <= requests_per_hour
    /\ \A c \in ClientIds :
          IsSuffix(GetOrCreate(minute_requests, c), GetOrCreate(hour_requests, c))

\* A fingerprint holds a minute window shorter than its hour window, which
\* is full, after a pass that dropped the minute window of another one.
C36_Witness ==
    /\ \E c \in DOMAIN minute_requests :
          /\ c \in DOMAIN hour_requests
          /\ Len(minute_requests[c]) >= 1
          /\ Len(minute_requests[c]) < Len(hour_requests[c])
          /\ Len(hour_requests[c]) = requests_per_hour
    /\ \E c \in DOMAIN hour_requests : c \notin DOMAIN minute_requests
    /\ \E j \in DOMAIN history : history[j].swept

\* C37: whether a call is admitted is decided by the clock and the earlier
\* admitted calls of the same fingerprint alone: it is admitted exactly when
\* fewer than the per-minute limit of them lie in the 60 seconds before it
\* and fewer than the per-hour limit in the 3600 seconds before it; and a
\* call that makes no pass leaves the windows of every other fingerprint as
\* they were.
C37_FingerprintsIsolated ==
    [][ Len(history') > Len(history) =>
          LET i == Len(history')
              e == history'[i]
              own == { j \in 1..(i - 1) : history[j].client = e.client /\ history[j].allowed }
              in_minute == { j \in own : history[j].at >= e.at - MinuteWindow }
              in_hour == { j \in own : history[j].at >= e.at - HourWindow }
          IN  /\ e.allowed <=> /\ Cardinality(in_minute) < requests_per_minute
                               /\ Cardinality(in_hour) < requests_per_hour
              /\ ~e.swept =>
                    \A c \in ClientIds \ {e.client} :
                        /\ GetOrCreate(minute_requests', c) = GetOrCreate(minute_requests, c)
                        /\ GetOrCreate(hour_requests', c) = GetOrCreate(hour_requests, c) ]_vars

\* One fingerprint is denied while another, with a request in its window, is
\* admitted at the same time, no pass being made by either call.
C37_Witness ==
    \E i, j \in DOMAIN history :
        /\ i < j
        /\ history[i].client # history[j].client
        /\ history[i].at = history[j].at
        /\ ~history[i].allowed /\ ~history[i].swept
        /\ history[j].allowed /\ ~history[j].swept
        /\ \E k \in 1..(i - 1) :
              history[k].client = history[j].client /\ history[k].allowed

-----------------------------------------------------------------------------
(* Claims about the record save_file returns.                              *)

\* C38: the date a save_file record gives, no date having been passed, is
\* the name of the directory the file was written to, the first component
\* of its relative_path.
C38_RecordDateIsDirectory ==
    \A s \in saved :
        /\ s.record.date = Head(s.record.relative_path)
        /\ s.record.date = strftime_date(s.day)

-----------------------------------------------------------------------------
(* CleanupService: status queries and the daily routine, over some days.   *)

LastStatusTick == 4
MaxStatusLines == 3

\* CleanupService.get_cleanup_status(): the storage statistics and the last
\* cleanup time are read, then cleanup_old_files(dry_run=True) is called.
GetCleanupStatus ==
    LET found == files_to_delete(dirs, files, clock, max_age_days)
    IN
    \E scan_error \in BOOLEAN, log_fails \in BOOLEAN :
        LET os == [scan_error |-> scan_error, unlink_fails |-> {},
                   rmdir_fails |-> {}, log_fails |-> log_fails]
            r == IF scan_error
                 THEN cleanup_old_files(dirs, files, cleanup_log, clock,
                                        max_age_days, TRUE, os)
                 ELSE cleanup_found(dirs, files, cleanup_log, clock,
                                    max_age_days, TRUE, found, os)
        IN  /\ Len(cleanup_log) < MaxStatusLines
            /\ (IF scan_error THEN 1 ELSE 0) + (IF log_fails THEN 1 ELSE 0)
                  <= MaxFailures
            /\ dirs' = r.dirs
            /\ files' = r.files
            /\ cleanup_log' = r.log
            /\ fs_last' = [op |-> "get_cleanup_status", at |-> clock,
                           last_cleanup |-> _get_last_cleanup_time(cleanup_log),
                           files_eligible_for_cleanup |-> r.results.files_found,
                           logged |-> Len(r.log) - Len(cleanup_log)]
            /\ UNCHANGED <<clock, max_age_days, saved, calls>>
            /\ UNCHANGED <<rlVars, vfVars, thVars, mwVars, rtVars>>

\* CleanupService.run_daily_cleanup(): file_manager.schedule_cleanup().
RunDailyCleanup ==
    LET found == files_to_delete(dirs, files, clock, max_age_days)
    IN
    \E scan_error \in BOOLEAN, log_fails \in BOOLEAN :
        LET due == CleanupDue(FALSE, _get_last_cleanup_time(cleanup_log), clock)
            acts == due /\ ~scan_error /\ PerformCleanup(FALSE, found)
        IN  \E unlink_fails \in SUBSET (IF acts THEN found ELSE {}) :
              LET os == [scan_error |-> scan_error, unlink_fails |-> unlink_fails,
                         rmdir_fails |-> {}, log_fails |-> log_fails]
                  r == schedule_cleanup(dirs, files, cleanup_log, clock,
                                        max_age_days, FALSE, os)
              IN  /\ due => Len(cleanup_log) < MaxStatusLines
                  /\ Cardinality(unlink_fails)
                        + (IF scan_error THEN 1 ELSE 0)
                        + (IF log_fails THEN 1 ELSE 0) <= MaxFailures
                  /\ ~due => ~scan_error /\ ~log_fails
                  /\ dirs' = r.sweep.dirs
                  /\ files' = r.sweep.files
                  /\ cleanup_log' = r.sweep.log
                  /\ fs_last' = [op |-> "run_daily_cleanup", at |-> clock,
                                 performed |-> r.performed,
                                 results |-> r.sweep.results,
                                 logged |-> Len(r.sweep.log) - Len(cleanup_log)]
                  /\ UNCHANGED <<clock, max_age_days, saved, calls>>
                  /\ UNCHANGED <<rlVars, vfVars, thVars, mwVars, rtVars>>

TickStatus ==
    /\ clock < LastStatusTick
    /\ clock' = clock + 1
    /\ UNCHANGED <<max_age_days, dirs, files, cleanup_log, saved, calls, fs_last>>
    /\ UNCHANGED <<rlVars, vfVars, thVars, mwVars, rtVars>>

InitStatus == RateLimiterIdle /\ ValidateIdle /\ StoreForSchedule /\ ThreadsIdle /\ MiddlewareIdle /\ HandlersIdle

NextStatus == TickStatus \/ GetCleanupStatus \/ RunDailyCleanup

SpecStatus == InitStatus /\ [][NextStatus]_vars

\* The log begins with the line of a dry run and no two lines that follow
\* one another are more than 24 hours apart.
QueriedEveryDay(log) ==
    /\ log # << >>
    /\ log[1].dry_run
    /\ \A i \in 1..(Len(log) - 1) :
          Seconds(log[i + 1].timestamp) - Seconds(log[i].timestamp) <= 86400

\* C39: a dry run that logs, the one of a status query among them, makes
\* its time the last cleanup time; a daily routine called no more than 24
\* hours after it sweeps nothing, deletes nothing and logs nothing; and a
\* log that begins with a dry run and has no gap of more than 24 hours holds
\* no line of a real sweep.
C39_DryRunsPostponeTheSweep ==
    [][ /\ (fs_last'.op = "get_cleanup_status" /\ cleanup_log' # cleanup_log)
           => /\ cleanup_log'[Len(cleanup_log')].dry_run
              /\ _get_last_cleanup_time(cleanup_log')
                    = [ok |-> TRUE, seconds |-> Seconds(clock)]
        /\ ( /\ fs_last'.op = "run_daily_cleanup"
             /\ fs_last' # fs_last
             /\ cleanup_log # << >>
             /\ cleanup_log[Len(cleanup_log)].dry_run
             /\ Seconds(clock) - Seconds(cleanup_log[Len(cleanup_log)].timestamp)
                   <= 86400 )
           => /\ ~fs_last'.performed
              /\ files' = files /\ dirs' = dirs /\ cleanup_log' = cleanup_log
        /\ QueriedEveryDay(cleanup_log')
           => \A i \in DOMAIN cleanup_log' : cleanup_log'[i].dry_run ]_vars

\* Status queries on three days, 24 hours apart, have each logged a dry run;
\* the daily routine, called two days after the first of them with a file
\* to delete in the store, has done nothing.
C39_Witness ==
    /\ fs_last.op = "run_daily_cleanup"
    /\ ~fs_last.performed
    /\ Len(cleanup_log) = 3
    /\ QueriedEveryDay(cleanup_log)
    /\ cleanup_log[1].files_found = 1
    /\ Seconds(clock) - Seconds(cleanup_log[1].timestamp) = 2 * 86400
    /\ files_to_delete(dirs, files, clock, max_age_days) # {}

====
